---- MODULE Spec2Model ----
(***************************************************************************)
(* BTC/JPY arbitrage monitor: arbitrage detector and fee model             *)
(* (server/arbitrage.js, server/fees.js), quote source                     *)
(* (server/exchanges.js), polling cycle, WebSocket and HTTP handlers       *)
(* (server/index.js), storage (server/database.js) and the client's error  *)
(* boundary (client/src/ErrorBoundary.js).  Each component has its own     *)
(* specification: Spec, SpecFetch, SpecServer, SpecConnections, SpecApi,   *)
(* SpecDb, SpecFees, SpecCalls, SpecPairs, SpecBoundary.                   *)
(*                                                                         *)
(* Arithmetic.  The JavaScript code computes on IEEE doubles; the model    *)
(* computes on exact decimal fixed point.  Prices and the JPY withdrawal   *)
(* fees are whole JPY.  Fee rates and BTC amounts are counted in 1/Scale   *)
(* (0.0015 is 15, 0.0001 BTC is 1).  Every amount of money that results    *)
(* from a fee computation (tradingFee, netValue, btcTransferCost, total,   *)
(* grossProfit, netProfit) is counted in 1/Scale JPY.  Percentages are     *)
(* kept as fractions [num, den].                                           *)
(***************************************************************************)
EXTENDS Integers, Sequences, FiniteSets, TLC

\* ------------------------------------------------------------------ bounds
MaxRuns   == 2      \* calls of detectArbitrageOpportunities in one behaviour
MaxClock  == 1      \* seconds the wall clock can advance
MaxSettled == 2     \* save promises followed to their outcome; the others stay pending
MaxFetchCalls == 1  \* calls of getAllPrices in one behaviour
MaxCycles == 2      \* polling cycles (timer firings) in one behaviour
MaxRequests == 2    \* HTTP requests in one behaviour
MaxDbCalls == 2     \* savePrices and clearAllData calls in one behaviour
MaxCalls == 1       \* direct calls of the calculator and helpers in one behaviour
MaxChildErrors == 3 \* errors thrown below the ErrorBoundary in one behaviour

\* --------------------------------------------------------------- constants
Scale == 10000      \* fixed-point denominator: the finest rate is 0.0001
MAX_CONNECTIONS == 50

\* ------------------------------------------------------- values and inputs
\* A bid/ask is absent (null, or NaN from parseFloat of a missing field)
\* or a number.
Null == <<>>
Some(v) == <<v>>
Val(x) == x[1]

\* JavaScript truthiness of a bid/ask: null, NaN and 0 are falsy.
Truthy(x) == x # Null /\ Val(x) # 0

Abs(x) == IF x < 0 THEN -x ELSE x

\* fractions
Rat(n, d) == [num |-> n, den |-> d]
\* r >= s.  A zero denominator is the double n/0: Infinity when n > 0 (not
\* below any finite s), -Infinity or NaN otherwise (every comparison false).
RatGE(r, s) ==
    IF r.den = 0 THEN r.num > 0
    ELSE IF (r.den > 0) = (s.den > 0)
    THEN r.num * s.den >= s.num * r.den
    ELSE r.num * s.den <= s.num * r.den

\* Exchange identifiers a quote list can carry, in the order the quote
\* source lists them; "Exchange1" has no entry in the fee table.  A quote
\* list holds at most one quote per exchange, in this order.
QuoteExchanges == <<"bitFlyer", "GMOコイン", "Exchange1">>

BidValues == {Null, Some(1001), Some(50020)}
AskValues == {Null, Some(0), Some(-1000), Some(1000), Some(50010)}

RECURSIVE SortedSeqOf(_)
SortedSeqOf(S) ==
    IF S = {} THEN <<>>
    ELSE LET m == CHOOSE x \in S : \A y \in S : x <= y
         IN  <<m>> \o SortedSeqOf(S \ {m})

ExchangeLists ==
    { [k \in 1..Cardinality(S) |-> QuoteExchanges[SortedSeqOf(S)[k]]] :
        S \in SUBSET (1..Len(QuoteExchanges)) }

\* A list on which buying at bitFlyer and selling at GMO breaks even: the
\* fees of the direction (0.15% + 0.05% + 0.0005 BTC) eat the spread of 5 JPY.
BreakEvenLists ==
    { << [exchange |-> "bitFlyer", bid |-> Some(1001), ask |-> Some(1999)],
         [exchange |-> "GMOコイン", bid |-> Some(2004), ask |-> Some(50010)] >> }

\* A list of three exchanges without fee entry that quote the same crossed
\* prices: all six directions pass the gate with the same fees, hence the
\* same netProfit.
TieLists ==
    { [k \in 1..3 |-> [exchange |-> <<"Exchange1", "Exchange2", "Exchange3">>[k],
                       bid |-> Some(50020), ask |-> Some(1000)]] }

QuoteLists ==
    UNION { { [k \in 1..Len(es) |->
                [exchange |-> es[k], bid |-> f[k][1], ask |-> f[k][2]]] :
              f \in [1..Len(es) -> BidValues \X AskValues] } :
            es \in ExchangeLists }
    \cup BreakEvenLists \cup TieLists

\* ---------------------------------------------------------------- FeeCalculator
FeeTable ==
    [ bitFlyer  |-> [tradingFee |-> [maker |-> 1, taker |-> 15],
                     withdrawalFee |-> [jpy |-> 550, jpySMBC |-> 330, btc |-> 4]],
      Coincheck |-> [tradingFee |-> [maker |-> 0, taker |-> 0],
                     withdrawalFee |-> [jpy |-> 407, btc |-> 5]],
      Zaif      |-> [tradingFee |-> [maker |-> 0, taker |-> 10],
                     withdrawalFee |-> [jpy |-> 385, btc |-> 1]],
      bitbank   |-> [tradingFee |-> [maker |-> -2, taker |-> 12],
                     withdrawalFee |-> [jpy |-> 550, btc |-> 6]],
      BITPoint  |-> [tradingFee |-> [maker |-> 0, taker |-> 0],
                     withdrawalFee |-> [jpy |-> 0, btc |-> 0]] ]
    @@ ("GMOコイン" :> [tradingFee |-> [maker |-> -1, taker |-> 5],
                        withdrawalFee |-> [jpy |-> 0, btc |-> 0]])

NetworkFee == 1     \* 0.0001 BTC

DefaultThreshold == Rat(1, 10)      \* 0.1 (percent)

VARIABLES
    prices,         \* the quote list handed to the detector
    db,             \* TRUE iff the detector was constructed with a database
    threshold,      \* ArbitrageDetector.threshold
    exchangeFees,   \* FeeCalculator.exchangeFees
    now,            \* wall clock, in seconds
    runs,           \* completed calls of detectArbitrageOpportunities
    result,         \* list returned by the last call
    prevResult,     \* list returned by the call before it
    saveCalls,      \* arguments of the saveArbitrageOpportunity calls of the last call
    totalSaveCalls, \* saveArbitrageOpportunity calls made so far
    pendingSaves,   \* save promises not yet settled
    savedRows,      \* save promises resolved (row inserted)
    saveErrors      \* save promises rejected (logged by .catch(console.error))

detectorVars ==
    <<prices, db, threshold, exchangeFees, now, runs, result, prevResult,
      saveCalls, totalSaveCalls, pendingSaves, savedRows, saveErrors>>

VARIABLES
    promises,       \* getAllPrices: the six promises handed to Promise.allSettled
    allPrices,      \* getAllPrices: the promise it returns
    fetchCalls      \* getAllPrices: calls made so far

fetchVars == <<promises, allPrices, fetchCalls>>

VARIABLES
    cycles,               \* invocations of fetchPricesAndDetectArbitrage
    currentPrices,        \* server: let currentPrices
    currentOpportunities, \* server: let currentOpportunities
    storedBatches,        \* quote lists whose savePrices resolved
    broadcasts,           \* calls of broadcastToClients
    readyState,           \* per client socket: ws.readyState
    closeListener,        \* per client socket: ws.on('close') registered
    closeCode,            \* per client socket: code of ws.close issued by the server
    received,             \* per client socket: messages sent to it, in order
    connectionCount,      \* server: let connectionCount
    crowdOpen             \* further accepted sockets that are open, counted

serverVars ==
    <<cycles, currentPrices, currentOpportunities, storedBatches, broadcasts,
      readyState, closeListener, closeCode, received, connectionCount, crowdOpen>>

VARIABLES
    pendingRequest,  \* HTTP request waiting for database.getPriceHistory
    responses,       \* HTTP responses sent, in order
    historyQueries   \* arguments of the database.getPriceHistory calls, in order

apiVars == <<pendingRequest, responses, historyQueries>>

VARIABLES
    price_history,            \* table price_history: rows
    arbitrage_opportunities,  \* table arbitrage_opportunities: number of rows
    saveOp,                   \* the savePrices call in progress or last finished
    clearOp,                  \* the clearAllData call in progress or last finished
    dbCalls                   \* savePrices and clearAllData calls made so far

dbVars == <<price_history, arbitrage_opportunities, saveOp, clearOp, dbCalls>>

VARIABLES
    calls,          \* direct calls of the calculator and detector helpers made so far
    returned        \* the last such call: its function, arguments and return value

callVars == <<calls, returned>>

VARIABLES
    state,          \* ErrorBoundary: this.state
    lifecycle,      \* ErrorBoundary: where React is in handling a thrown error
    caught,         \* ErrorBoundary: the error React is handling and its info
    rendered,       \* ErrorBoundary: outcome of every render() so far, in order
    childErrors     \* errors thrown below the boundary so far

boundaryVars == <<state, lifecycle, caught, rendered, childErrors>>

vars == <<detectorVars, fetchVars, serverVars, apiVars, dbVars, callVars, boundaryVars>>

\* What the detector does not touch.
outsideDetector == <<fetchVars, serverVars, apiVars, dbVars, callVars, boundaryVars>>

\* Variant: an exchange without an entry is charged no trading fee.
getTradingFee_noFallback(exchange) ==
    IF exchange \notin DOMAIN exchangeFees
    THEN [maker |-> 0, taker |-> 0]
    ELSE [maker |-> exchangeFees[exchange].tradingFee.maker,
          taker |-> exchangeFees[exchange].tradingFee.taker]

getTradingFee(exchange) ==
    IF exchange \notin DOMAIN exchangeFees
    THEN [maker |-> 10, taker |-> 10]
    ELSE [maker |-> exchangeFees[exchange].tradingFee.maker,
          taker |-> exchangeFees[exchange].tradingFee.taker]

getWithdrawalFee(exchange, currency) ==
    IF exchange \notin DOMAIN exchangeFees
    THEN (IF currency = "jpy" THEN 500 ELSE 5)
    ELSE IF currency \in DOMAIN exchangeFees[exchange].withdrawalFee
         THEN exchangeFees[exchange].withdrawalFee[currency]
         ELSE 0

\* Variant: the sell leg adds the fee to the proceeds instead of deducting it.
calculateTradingCosts_sellAddsFee(exchange, amount, price, side, orderType) ==
    LET tradingFees == getTradingFee(exchange)
        feeRate == IF orderType = "maker" THEN tradingFees.maker ELSE tradingFees.taker
        tradeValue == amount * price * Scale
        tradingFee == Abs(amount * price * feeRate)
    IN  [tradeValue |-> tradeValue,
         feeRate |-> feeRate,
         tradingFee |-> tradingFee,
         netValue |-> tradeValue + tradingFee]

calculateTradingCosts(exchange, amount, price, side, orderType) ==
    LET tradingFees == getTradingFee(exchange)
        feeRate == IF orderType = "maker" THEN tradingFees.maker ELSE tradingFees.taker
        tradeValue == amount * price * Scale
        tradingFee == Abs(amount * price * feeRate)
    IN  [tradeValue |-> tradeValue,
         feeRate |-> feeRate,
         tradingFee |-> tradingFee,
         netValue |-> IF side = "buy" THEN tradeValue + tradingFee
                                      ELSE tradeValue - tradingFee]

\* Variant: the total leaves the Bitcoin network fee out.
calculateArbitrageCosts_totalWithoutNetworkFee(buyExchange, sellExchange, amount, buyPrice, sellPrice) ==
    LET buyCosts == calculateTradingCosts(buyExchange, amount, buyPrice, "buy", "taker")
        sellCosts == calculateTradingCosts(sellExchange, amount, sellPrice, "sell", "taker")
        jpyWithdrawalFee == getWithdrawalFee(sellExchange, "jpy") * Scale
        btcWithdrawalFee == getWithdrawalFee(buyExchange, "btc")
        totalBuyCost == buyCosts.netValue
        totalSellRevenue == sellCosts.netValue - jpyWithdrawalFee
        btcTransferCost == (btcWithdrawalFee + NetworkFee) * buyPrice
        grossProfit == sellPrice * amount * Scale - buyPrice * amount * Scale
        netProfit == totalSellRevenue - totalBuyCost - btcTransferCost
    IN  [grossProfit |-> grossProfit,
         netProfit |-> netProfit,
         profitReduction |-> grossProfit - netProfit,
         totalCosts |->
            [buyTradingFee |-> buyCosts.tradingFee,
             sellTradingFee |-> sellCosts.tradingFee,
             jpyWithdrawalFee |-> jpyWithdrawalFee,
             btcTransferCost |-> btcTransferCost,
             total |-> buyCosts.tradingFee + sellCosts.tradingFee
                       + jpyWithdrawalFee + btcWithdrawalFee * buyPrice],
         costBreakdown |->
            [buyExchange |-> [exchange |-> buyExchange,
                              tradingFee |-> buyCosts.tradingFee,
                              feeRate |-> buyCosts.feeRate,
                              btcWithdrawalFee |-> btcWithdrawalFee * buyPrice],
             sellExchange |-> [exchange |-> sellExchange,
                               tradingFee |-> sellCosts.tradingFee,
                               feeRate |-> sellCosts.feeRate,
                               jpyWithdrawalFee |-> jpyWithdrawalFee],
             networkFee |-> NetworkFee * buyPrice]]

\* Variant: the total deducts the trading fee of the sell leg.
calculateArbitrageCosts_sellFeeDeducted(buyExchange, sellExchange, amount, buyPrice, sellPrice) ==
    LET buyCosts == calculateTradingCosts(buyExchange, amount, buyPrice, "buy", "taker")
        sellCosts == calculateTradingCosts(sellExchange, amount, sellPrice, "sell", "taker")
        jpyWithdrawalFee == getWithdrawalFee(sellExchange, "jpy") * Scale
        btcWithdrawalFee == getWithdrawalFee(buyExchange, "btc")
        totalBuyCost == buyCosts.netValue
        totalSellRevenue == sellCosts.netValue - jpyWithdrawalFee
        btcTransferCost == (btcWithdrawalFee + NetworkFee) * buyPrice
        grossProfit == sellPrice * amount * Scale - buyPrice * amount * Scale
        netProfit == totalSellRevenue - totalBuyCost - btcTransferCost
    IN  [grossProfit |-> grossProfit,
         netProfit |-> netProfit,
         profitReduction |-> grossProfit - netProfit,
         totalCosts |->
            [buyTradingFee |-> buyCosts.tradingFee,
             sellTradingFee |-> sellCosts.tradingFee,
             jpyWithdrawalFee |-> jpyWithdrawalFee,
             btcTransferCost |-> btcTransferCost,
             total |-> buyCosts.tradingFee - sellCosts.tradingFee
                       + jpyWithdrawalFee + btcTransferCost],
         costBreakdown |->
            [buyExchange |-> [exchange |-> buyExchange,
                              tradingFee |-> buyCosts.tradingFee,
                              feeRate |-> buyCosts.feeRate,
                              btcWithdrawalFee |-> btcWithdrawalFee * buyPrice],
             sellExchange |-> [exchange |-> sellExchange,
                               tradingFee |-> sellCosts.tradingFee,
                               feeRate |-> sellCosts.feeRate,
                               jpyWithdrawalFee |-> jpyWithdrawalFee],
             networkFee |-> NetworkFee * buyPrice]]

calculateArbitrageCosts(buyExchange, sellExchange, amount, buyPrice, sellPrice) ==
    LET buyCosts == calculateTradingCosts(buyExchange, amount, buyPrice, "buy", "taker")
        sellCosts == calculateTradingCosts(sellExchange, amount, sellPrice, "sell", "taker")
        jpyWithdrawalFee == getWithdrawalFee(sellExchange, "jpy") * Scale
        btcWithdrawalFee == getWithdrawalFee(buyExchange, "btc")
        totalBuyCost == buyCosts.netValue
        totalSellRevenue == sellCosts.netValue - jpyWithdrawalFee
        btcTransferCost == (btcWithdrawalFee + NetworkFee) * buyPrice
        grossProfit == sellPrice * amount * Scale - buyPrice * amount * Scale
        netProfit == totalSellRevenue - totalBuyCost - btcTransferCost
    IN  [grossProfit |-> grossProfit,
         netProfit |-> netProfit,
         profitReduction |-> grossProfit - netProfit,
         totalCosts |->
            [buyTradingFee |-> buyCosts.tradingFee,
             sellTradingFee |-> sellCosts.tradingFee,
             jpyWithdrawalFee |-> jpyWithdrawalFee,
             btcTransferCost |-> btcTransferCost,
             total |-> buyCosts.tradingFee + sellCosts.tradingFee
                       + jpyWithdrawalFee + btcTransferCost],
         costBreakdown |->
            [buyExchange |-> [exchange |-> buyExchange,
                              tradingFee |-> buyCosts.tradingFee,
                              feeRate |-> buyCosts.feeRate,
                              btcWithdrawalFee |-> btcWithdrawalFee * buyPrice],
             sellExchange |-> [exchange |-> sellExchange,
                               tradingFee |-> sellCosts.tradingFee,
                               feeRate |-> sellCosts.feeRate,
                               jpyWithdrawalFee |-> jpyWithdrawalFee],
             networkFee |-> NetworkFee * buyPrice]]

\* ------------------------------------------------------------ ArbitrageDetector
getJapanTime == now

\* Variant: the guard asks for the presence of the prices, not their truthiness.
directionViable_presentOnly(from, to) ==
    from.ask # Null /\ to.bid # Null /\ Val(from.ask) < Val(to.bid)

\* Variant: a quote that lacks either price is left out of the pair entirely.
directionViable_wholeQuotes(from, to) ==
    /\ Truthy(from.ask) /\ Truthy(from.bid)
    /\ Truthy(to.ask) /\ Truthy(to.bid)
    /\ Val(from.ask) < Val(to.bid)

\* The guard of a direction block: buy at `from`, sell at `to`.
directionViable(from, to) ==
    Truthy(from.ask) /\ Truthy(to.bid) /\ Val(from.ask) < Val(to.bid)

\* Variant: strict gate, a spread equal to the threshold is rejected.
passesThreshold_strict(percentageDiff) == ~RatGE(threshold, percentageDiff)

\* Variant: the gate compares the percentage with a tenth of the threshold.
passesThreshold_tenth(percentageDiff) ==
    RatGE(percentageDiff, Rat(threshold.num, threshold.den * 10))

\* The threshold gate.
passesThreshold(percentageDiff) == RatGE(percentageDiff, threshold)

\* Variant: the exchanges are handed to the fee evaluation in the wrong order.
feeAnalysisOf_swapped(from, to) ==
    calculateArbitrageCosts(to.exchange, from.exchange, 1, Val(from.ask), Val(to.bid))

\* The fee evaluation of a direction, for 1 BTC.
feeAnalysisOf(from, to) ==
    calculateArbitrageCosts(from.exchange, to.exchange, 1, Val(from.ask), Val(to.bid))

\* Variant: breaking even counts as profitable.
makeOpportunity_breakEvenProfitable(from, to) ==
    LET priceDiff == Val(to.bid) - Val(from.ask)
        percentageDiff == Rat(priceDiff * 100, Val(from.ask))
        feeAnalysis == feeAnalysisOf(from, to)
        netProfitPercentage ==
            Rat(feeAnalysis.netProfit, Val(from.ask) * (Scale \div 100))
    IN  [exchangeFrom |-> from.exchange,
         exchangeTo |-> to.exchange,
         priceFrom |-> Val(from.ask),
         priceTo |-> Val(to.bid),
         bidFrom |-> from.bid,
         askFrom |-> from.ask,
         bidTo |-> to.bid,
         askTo |-> to.ask,
         priceDifference |-> priceDiff,
         percentageDifference |-> percentageDiff,
         timestamp |-> getJapanTime,
         profit |-> priceDiff,
         netProfit |-> feeAnalysis.netProfit,
         netProfitPercentage |-> netProfitPercentage,
         totalFees |-> feeAnalysis.totalCosts.total,
         feeBreakdown |-> feeAnalysis.costBreakdown,
         isProfitableAfterFees |-> feeAnalysis.netProfit >= 0]

\* The opportunity object of a direction.
makeOpportunity(from, to) ==
    LET priceDiff == Val(to.bid) - Val(from.ask)
        percentageDiff == Rat(priceDiff * 100, Val(from.ask))
        feeAnalysis == feeAnalysisOf(from, to)
        netProfitPercentage ==
            Rat(feeAnalysis.netProfit, Val(from.ask) * (Scale \div 100))
    IN  [exchangeFrom |-> from.exchange,
         exchangeTo |-> to.exchange,
         priceFrom |-> Val(from.ask),
         priceTo |-> Val(to.bid),
         bidFrom |-> from.bid,
         askFrom |-> from.ask,
         bidTo |-> to.bid,
         askTo |-> to.ask,
         priceDifference |-> priceDiff,
         percentageDifference |-> percentageDiff,
         timestamp |-> getJapanTime,
         profit |-> priceDiff,
         netProfit |-> feeAnalysis.netProfit,
         netProfitPercentage |-> netProfitPercentage,
         totalFees |-> feeAnalysis.totalCosts.total,
         feeBreakdown |-> feeAnalysis.costBreakdown,
         isProfitableAfterFees |-> feeAnalysis.netProfit > 0]

\* One of the two direction blocks of the loop body: the sequence of
\* opportunities it pushes (none or one).
checkDirection(from, to) ==
    IF directionViable(from, to)
    THEN IF passesThreshold(Rat((Val(to.bid) - Val(from.ask)) * 100, Val(from.ask)))
         THEN <<makeOpportunity(from, to)>>
         ELSE <<>>
    ELSE <<>>

\* Body of the inner loop for the pair (i, j): direction i -> j, then j -> i.
checkPair(ps, i, j) == checkDirection(ps[i], ps[j]) \o checkDirection(ps[j], ps[i])

RECURSIVE innerLoop(_, _, _)
innerLoop(ps, i, j) ==
    IF j > Len(ps) THEN <<>>
    ELSE checkPair(ps, i, j) \o innerLoop(ps, i, j + 1)

\* Variant: the inner loop starts at j = i, pairing a quote with itself.
RECURSIVE outerLoop_selfPair(_, _)
outerLoop_selfPair(ps, i) ==
    IF i > Len(ps) THEN <<>>
    ELSE innerLoop(ps, i, i) \o outerLoop_selfPair(ps, i + 1)

RECURSIVE outerLoop(_, _)
outerLoop(ps, i) ==
    IF i > Len(ps) THEN <<>>
    ELSE innerLoop(ps, i, i + 1) \o outerLoop(ps, i + 1)

\* The opportunities in the order they are pushed (and saved).
pushedOpportunities(ps) == IF Len(ps) < 2 THEN <<>> ELSE outerLoop(ps, 1)

BoolNum(b) == IF b THEN 1 ELSE 0

\* Variant: ascending comparator.
compareOpportunities_ascending(a, b) ==
    IF a.isProfitableAfterFees # b.isProfitableAfterFees
    THEN BoolNum(a.isProfitableAfterFees) - BoolNum(b.isProfitableAfterFees)
    ELSE a.netProfit - b.netProfit

\* The comparator handed to Array.prototype.sort.
compareOpportunities(a, b) ==
    IF a.isProfitableAfterFees # b.isProfitableAfterFees
    THEN BoolNum(b.isProfitableAfterFees) - BoolNum(a.isProfitableAfterFees)
    ELSE b.netProfit - a.netProfit

\* Variant: an unstable sort, x goes in front of the elements it ties with.
RECURSIVE insertSorted_beforeEquals(_, _)
insertSorted_beforeEquals(x, s) ==
    IF s = <<>> THEN <<x>>
    ELSE IF compareOpportunities(s[Len(s)], x) < 0 THEN Append(s, x)
    ELSE Append(insertSorted_beforeEquals(x, SubSeq(s, 1, Len(s) - 1)), s[Len(s)])

\* Array.prototype.sort is stable: x goes behind every element that does
\* not compare greater than it.
RECURSIVE insertSorted(_, _)
insertSorted(x, s) ==
    IF s = <<>> THEN <<x>>
    ELSE IF compareOpportunities(s[Len(s)], x) <= 0 THEN Append(s, x)
    ELSE Append(insertSorted(x, SubSeq(s, 1, Len(s) - 1)), s[Len(s)])

RECURSIVE sortOpportunities(_)
sortOpportunities(s) ==
    IF s = <<>> THEN <<>>
    ELSE insertSorted(s[Len(s)], sortOpportunities(SubSeq(s, 1, Len(s) - 1)))

\* Variant: the opportunities array outlives the call.
detectArbitrageOpportunities_accumulating(ps) ==
    sortOpportunities(result \o pushedOpportunities(ps))

detectArbitrageOpportunities(ps) == sortOpportunities(pushedOpportunities(ps))

\* ------------------------------------------- the other components, before use
\* The exchanges in the order getAllPrices lists their fetchers.
ExchangeOrder == <<"bitFlyer", "Coincheck", "Zaif", "GMOコイン", "bitbank", "BITPoint">>

\* The WebSocket clients followed individually.
Clients == {"c1", "c2"}

\* No getAllPrices call has been made.
FetchIdle ==
    /\ promises = <<>>
    /\ allPrices = [state |-> "none", value |-> Null]
    /\ fetchCalls = 0

\* The server module has been loaded: no cycle has run, nobody is connected.
ServerIdle ==
    /\ cycles = [c \in 1..MaxCycles |-> [pc |-> "idle", prices |-> <<>>]]
    /\ currentPrices = <<>>
    /\ currentOpportunities = <<>>
    /\ storedBatches = <<>>
    /\ broadcasts = <<>>
    /\ readyState = [c \in Clients |-> "CONNECTING"]
    /\ closeListener = [c \in Clients |-> FALSE]
    /\ closeCode = [c \in Clients |-> 0]
    /\ received = [c \in Clients |-> <<>>]
    /\ connectionCount = 0
    /\ crowdOpen = 0

\* No HTTP request has been made.
ApiIdle ==
    /\ pendingRequest = Null
    /\ responses = <<>>
    /\ historyQueries = <<>>

NoSaveOp == [pc |-> "idle", prices |-> <<>>, next |-> 1, inserted |-> {}, promise |-> "none"]
NoClearOp ==
    [pc |-> "idle", priceHistoryDelete |-> "none", opportunitiesDelete |-> "none",
     promise |-> "none", error |-> "none"]

\* No savePrices or clearAllData call has been made on an empty database.
DbIdle ==
    /\ price_history = <<>>
    /\ arbitrage_opportunities = 0
    /\ saveOp = NoSaveOp
    /\ clearOp = NoClearOp
    /\ dbCalls = 0

\* No calculator or helper has been called directly.
CallsIdle ==
    /\ calls = 0
    /\ returned = Null

\* ErrorBoundary constructor; the children have rendered.
BoundaryIdle ==
    /\ state = [hasError |-> FALSE, error |-> Null, errorInfo |-> Null]
    /\ lifecycle = "mounted"
    /\ caught = Null
    /\ rendered = <<"children">>
    /\ childErrors = 0

\* ----------------------------------------------------------------- behaviour
Init ==
    /\ prices \in QuoteLists
    /\ db \in BOOLEAN
    /\ threshold = DefaultThreshold
    /\ exchangeFees = FeeTable
    /\ now = 0
    /\ runs = 0
    /\ result = <<>>
    /\ prevResult = <<>>
    /\ saveCalls = <<>>
    /\ totalSaveCalls = 0
    /\ pendingSaves = 0
    /\ savedRows = 0
    /\ saveErrors = 0
    /\ FetchIdle /\ ServerIdle /\ ApiIdle /\ DbIdle /\ CallsIdle /\ BoundaryIdle

\* Variant: the opportunities are handed to saveArbitrageOpportunity whether
\* or not a database was given.
Detect_savesWithoutDatabase ==
    /\ runs < MaxRuns
    /\ runs' = runs + 1
    /\ prevResult' = result
    /\ result' = detectArbitrageOpportunities(prices)
    /\ saveCalls' = pushedOpportunities(prices)
    /\ totalSaveCalls' = totalSaveCalls + Len(saveCalls')
    /\ pendingSaves' = pendingSaves + Len(saveCalls')
    /\ UNCHANGED <<prices, db, threshold, exchangeFees, now, savedRows, saveErrors>>
    /\ UNCHANGED outsideDetector

\* Variant: the call sorts the quote list it was given in place, by price.
Detect_reordersInput ==
    /\ runs < MaxRuns
    /\ runs' = runs + 1
    /\ prevResult' = result
    /\ result' = detectArbitrageOpportunities(prices)
    /\ saveCalls' = IF db THEN pushedOpportunities(prices) ELSE <<>>
    /\ totalSaveCalls' = totalSaveCalls + Len(saveCalls')
    /\ pendingSaves' = pendingSaves + Len(saveCalls')
    /\ prices' = [k \in 1..Len(prices) |-> prices[Len(prices) + 1 - k]]
    /\ UNCHANGED <<db, threshold, exchangeFees, now, savedRows, saveErrors>>
    /\ UNCHANGED outsideDetector

\* One call detectArbitrageOpportunities(prices).  The call is synchronous:
\* the save promises it starts settle only after it has returned.
Detect ==
    /\ runs < MaxRuns
    /\ runs' = runs + 1
    /\ prevResult' = result
    /\ result' = detectArbitrageOpportunities(prices)
    /\ saveCalls' = IF db THEN pushedOpportunities(prices) ELSE <<>>
    /\ totalSaveCalls' = totalSaveCalls + Len(saveCalls')
    /\ pendingSaves' = pendingSaves + Len(saveCalls')
    /\ UNCHANGED <<prices, db, threshold, exchangeFees, now, savedRows, saveErrors>>
    /\ UNCHANGED outsideDetector

\* The INSERT of one pending saveArbitrageOpportunity succeeds: resolve().
SaveResolve ==
    /\ pendingSaves > 0
    /\ savedRows + saveErrors < MaxSettled
    /\ pendingSaves' = pendingSaves - 1
    /\ savedRows' = savedRows + 1
    /\ UNCHANGED <<prices, db, threshold, exchangeFees, now, runs, result,
                   prevResult, saveCalls, totalSaveCalls, saveErrors>>
    /\ UNCHANGED outsideDetector

\* Variant: a rejected save takes an opportunity out of the returned list.
SaveReject_dropsOpportunity ==
    /\ pendingSaves > 0
    /\ savedRows + saveErrors < MaxSettled
    /\ pendingSaves' = pendingSaves - 1
    /\ saveErrors' = saveErrors + 1
    /\ result' = IF result = <<>> THEN result ELSE Tail(result)
    /\ UNCHANGED <<prices, db, threshold, exchangeFees, now, runs,
                   prevResult, saveCalls, totalSaveCalls, savedRows>>
    /\ UNCHANGED outsideDetector

\* The INSERT fails: reject(err), handled by .catch(console.error).
SaveReject ==
    /\ pendingSaves > 0
    /\ savedRows + saveErrors < MaxSettled
    /\ pendingSaves' = pendingSaves - 1
    /\ saveErrors' = saveErrors + 1
    /\ UNCHANGED <<prices, db, threshold, exchangeFees, now, runs, result,
                   prevResult, saveCalls, totalSaveCalls, savedRows>>
    /\ UNCHANGED outsideDetector

\* The wall clock read by getJapanTime advances by a second.
Tick ==
    /\ now < MaxClock
    /\ now' = now + 1
    /\ UNCHANGED <<prices, db, threshold, exchangeFees, runs, result, prevResult,
                   saveCalls, totalSaveCalls, pendingSaves, savedRows, saveErrors>>
    /\ UNCHANGED outsideDetector

Next == Detect \/ SaveResolve \/ SaveReject \/ Tick

Spec == Init /\ [][Next]_vars

\* ------------------------------------------------------------------ ExchangeAPI
\* The detector is constructed and idle.
DetectorIdle ==
    /\ prices = <<>>
    /\ db = TRUE
    /\ threshold = DefaultThreshold
    /\ exchangeFees = FeeTable
    /\ now = 0
    /\ runs = 0
    /\ result = <<>>
    /\ prevResult = <<>>
    /\ saveCalls = <<>>
    /\ totalSaveCalls = 0
    /\ pendingSaves = 0
    /\ savedRows = 0
    /\ saveErrors = 0

\* The quote fetcher i builds from the ticker response of its exchange.
TickerQuote(i) ==
    [exchange |-> ExchangeOrder[i], bid |-> Some(50000 + 100 * i),
     ask |-> Some(50005 + 100 * i)]

\* getAllPrices is called: the six fetchers are started in the fixed order
\* and their promises are handed to Promise.allSettled.
getAllPrices ==
    /\ fetchCalls < MaxFetchCalls
    /\ allPrices.state # "pending"
    /\ fetchCalls' = fetchCalls + 1
    /\ promises' = [i \in 1..Len(ExchangeOrder) |-> [state |-> "pending", value |-> Null]]
    /\ allPrices' = [state |-> "pending", value |-> Null]
    /\ UNCHANGED <<detectorVars, serverVars, apiVars, dbVars, callVars, boundaryVars>>

\* The request of fetcher i succeeded: the fetcher returns the quote.
FetcherReturnsQuote(i) ==
    /\ promises # <<>>
    /\ promises[i].state = "pending"
    /\ promises' = [promises EXCEPT
                      ![i] = [state |-> "fulfilled", value |-> Some(TickerQuote(i))]]
    /\ UNCHANGED <<allPrices, fetchCalls, detectorVars, serverVars, apiVars, dbVars, callVars, boundaryVars>>

\* The request of fetcher i failed (error, timeout, malformed body): the
\* catch block logs and the fetcher returns null.
FetcherReturnsNull(i) ==
    /\ promises # <<>>
    /\ promises[i].state = "pending"
    /\ promises' = [promises EXCEPT ![i] = [state |-> "fulfilled", value |-> Null]]
    /\ UNCHANGED <<allPrices, fetchCalls, detectorVars, serverVars, apiVars, dbVars, callVars, boundaryVars>>

\* Variant: the first failed exchange ends the list.
settledPrices_untilFirstFailure(results) ==
    LET failed == { i \in 1..Len(results) :
                      ~(results[i].state = "fulfilled" /\ results[i].value # Null) }
        n == IF failed = {} THEN Len(results)
             ELSE (CHOOSE i \in failed : \A j \in failed : i <= j) - 1
    IN  [k \in 1..n |-> Val(results[k].value)]

\* results.filter(fulfilled and not null).map(value)
settledPrices(results) ==
    LET keep == { i \in 1..Len(results) :
                    results[i].state = "fulfilled" /\ results[i].value # Null }
        idx == SortedSeqOf(keep)
    IN  [k \in 1..Len(idx) |-> Val(results[idx[k]].value)]

\* Every fetcher has settled: Promise.allSettled resolves and getAllPrices
\* returns the filtered list.
AllSettled ==
    /\ allPrices.state = "pending"
    /\ \A i \in 1..Len(promises) : promises[i].state # "pending"
    /\ allPrices' = [state |-> "fulfilled", value |-> Some(settledPrices(promises))]
    /\ UNCHANGED <<promises, fetchCalls, detectorVars, serverVars, apiVars, dbVars, callVars, boundaryVars>>

InitFetch == DetectorIdle /\ FetchIdle /\ ServerIdle /\ ApiIdle /\ DbIdle /\ CallsIdle /\ BoundaryIdle

NextFetch ==
    \/ getAllPrices
    \/ \E i \in 1..Len(ExchangeOrder) : FetcherReturnsQuote(i)
    \/ \E i \in 1..Len(ExchangeOrder) : FetcherReturnsNull(i)
    \/ AllSettled

SpecFetch == InitFetch /\ [][NextFetch]_vars

\* ----------------------------------------------------------------------- server
\* The quotes getAllPrices returns when exactly the fetchers in S succeeded.
QuotesOf(S) == [k \in 1..Cardinality(S) |-> TickerQuote(SortedSeqOf(S)[k])]

\* Results of getAllPrices a cycle can see: every fetch failed, only bitFlyer
\* answered, bitFlyer and GMO answered (GMO's bid is above bitFlyer's ask).
PriceFeeds == { QuotesOf({}), QuotesOf({1}), QuotesOf({1, 4}) }

\* The timer (or the call at start-up) invokes fetchPricesAndDetectArbitrage,
\* which runs up to its await of getAllPrices.  setInterval does not wait for
\* the invocation before it.
TimerFires ==
    /\ \E c \in 1..MaxCycles :
          /\ cycles[c].pc = "idle"
          /\ \A d \in 1..(c - 1) : cycles[d].pc # "idle"
          /\ cycles' = [cycles EXCEPT ![c].pc = "fetching"]
    /\ UNCHANGED <<currentPrices, currentOpportunities, storedBatches, broadcasts,
                   readyState, closeListener, closeCode, received, connectionCount,
                   crowdOpen, detectorVars, fetchVars, apiVars, dbVars, callVars, boundaryVars>>

\* GET /api/prices: the handler is synchronous and answers with the two
\* globals as they are.
getPrices ==
    [prices |-> currentPrices,
     opportunities |-> currentOpportunities,
     timestamp |-> getJapanTime]

\* Variant: the list becomes currentPrices before its length is looked at.
GetAllPricesReturns_publishesEmpty(c, ps) ==
    /\ cycles[c].pc = "fetching"
    /\ currentPrices' = ps
    /\ IF Len(ps) > 0
       THEN cycles' = [cycles EXCEPT ![c] = [pc |-> "saving", prices |-> ps]]
       ELSE cycles' = [cycles EXCEPT ![c] = [pc |-> "returned", prices |-> ps]]
    /\ UNCHANGED <<currentOpportunities, storedBatches, broadcasts,
                   readyState, closeListener, closeCode, received, connectionCount,
                   crowdOpen, detectorVars, fetchVars, apiVars, dbVars, callVars, boundaryVars>>

\* getAllPrices of invocation c resolved with ps: a non-empty list becomes
\* currentPrices and is handed to savePrices, whose promise is awaited; an
\* empty list ends the invocation.
GetAllPricesReturns(c, ps) ==
    /\ cycles[c].pc = "fetching"
    /\ IF Len(ps) > 0
       THEN /\ currentPrices' = ps
            /\ cycles' = [cycles EXCEPT ![c] = [pc |-> "saving", prices |-> ps]]
       ELSE /\ currentPrices' = currentPrices
            /\ cycles' = [cycles EXCEPT ![c] = [pc |-> "returned", prices |-> ps]]
    /\ UNCHANGED <<currentOpportunities, storedBatches, broadcasts,
                   readyState, closeListener, closeCode, received, connectionCount,
                   crowdOpen, detectorVars, fetchVars, apiVars, dbVars, callVars, boundaryVars>>

\* client.send(JSON.stringify(data)) for every client whose readyState is OPEN.
broadcastToClients(data) ==
    [k \in Clients |->
        IF readyState[k] = "OPEN" THEN Append(received[k], data) ELSE received[k]]

\* savePrices of invocation c resolved: the invocation detects on its own
\* list, stores the result in currentOpportunities and broadcasts the two
\* globals.  The detector was constructed with the database.
SavePricesResolved(c) ==
    /\ cycles[c].pc = "saving"
    /\ LET opportunities == detectArbitrageOpportunities(cycles[c].prices)
           data == [type |-> "price_update",
                    prices |-> currentPrices,
                    opportunities |-> opportunities,
                    timestamp |-> getJapanTime]
       IN  /\ storedBatches' = Append(storedBatches, cycles[c].prices)
           /\ prices' = cycles[c].prices
           /\ runs' = runs + 1
           /\ prevResult' = result
           /\ result' = opportunities
           /\ saveCalls' = IF db THEN pushedOpportunities(cycles[c].prices) ELSE <<>>
           /\ totalSaveCalls' = totalSaveCalls + Len(saveCalls')
           /\ pendingSaves' = pendingSaves + Len(saveCalls')
           /\ currentOpportunities' = opportunities
           /\ received' = broadcastToClients(data)
           /\ broadcasts' = Append(broadcasts, [cycle |-> c, data |-> data])
    /\ cycles' = [cycles EXCEPT ![c].pc = "returned"]
    /\ UNCHANGED <<currentPrices, readyState, closeListener, closeCode,
                   connectionCount, crowdOpen, db, threshold, exchangeFees, now,
                   savedRows, saveErrors, fetchVars, apiVars, dbVars, callVars, boundaryVars>>

\* savePrices of invocation c rejected: the catch block logs the error and
\* the invocation ends.
SavePricesRejected(c) ==
    /\ cycles[c].pc = "saving"
    /\ cycles' = [cycles EXCEPT ![c].pc = "caught"]
    /\ UNCHANGED <<currentPrices, currentOpportunities, storedBatches, broadcasts,
                   readyState, closeListener, closeCode, received, connectionCount,
                   crowdOpen, detectorVars, fetchVars, apiVars, dbVars, callVars, boundaryVars>>

\* Variant: an accepted client is registered without being sent initial_data.
Connection_noInitialData(k) ==
    /\ readyState[k] = "CONNECTING"
    /\ IF connectionCount + 1 > MAX_CONNECTIONS
       THEN /\ readyState' = [readyState EXCEPT ![k] = "CLOSING"]
            /\ closeCode' = [closeCode EXCEPT ![k] = 1013]
            /\ connectionCount' = (connectionCount + 1) - 1
            /\ UNCHANGED <<received, closeListener>>
       ELSE /\ readyState' = [readyState EXCEPT ![k] = "OPEN"]
            /\ connectionCount' = connectionCount + 1
            /\ closeListener' = [closeListener EXCEPT ![k] = TRUE]
            /\ UNCHANGED <<received, closeCode>>
    /\ UNCHANGED <<cycles, currentPrices, currentOpportunities, storedBatches,
                   broadcasts, crowdOpen, detectorVars, fetchVars, apiVars, dbVars, callVars, boundaryVars>>

\* Variant: the close listener is registered before the limit is checked.
Connection_listenerBeforeLimit(k) ==
    /\ readyState[k] = "CONNECTING"
    /\ closeListener' = [closeListener EXCEPT ![k] = TRUE]
    /\ IF connectionCount + 1 > MAX_CONNECTIONS
       THEN /\ readyState' = [readyState EXCEPT ![k] = "CLOSING"]
            /\ closeCode' = [closeCode EXCEPT ![k] = 1013]
            /\ connectionCount' = (connectionCount + 1) - 1
            /\ UNCHANGED received
       ELSE /\ readyState' = [readyState EXCEPT ![k] = "OPEN"]
            /\ connectionCount' = connectionCount + 1
            /\ received' = [received EXCEPT ![k] =
                              Append(@, [type |-> "initial_data",
                                         prices |-> currentPrices,
                                         opportunities |-> currentOpportunities])]
            /\ UNCHANGED closeCode
    /\ UNCHANGED <<cycles, currentPrices, currentOpportunities, storedBatches,
                   broadcasts, crowdOpen, detectorVars, fetchVars, apiVars, dbVars, callVars, boundaryVars>>

\* wss.on('connection') for the socket of client k: count it; over the
\* limit, close it with 1013, take the count back and return; otherwise send
\* initial_data and register the close listener.
Connection(k) ==
    /\ readyState[k] = "CONNECTING"
    /\ IF connectionCount + 1 > MAX_CONNECTIONS
       THEN /\ readyState' = [readyState EXCEPT ![k] = "CLOSING"]
            /\ closeCode' = [closeCode EXCEPT ![k] = 1013]
            /\ connectionCount' = (connectionCount + 1) - 1
            /\ UNCHANGED <<received, closeListener>>
       ELSE /\ readyState' = [readyState EXCEPT ![k] = "OPEN"]
            /\ connectionCount' = connectionCount + 1
            /\ received' = [received EXCEPT ![k] =
                              Append(@, [type |-> "initial_data",
                                         prices |-> currentPrices,
                                         opportunities |-> currentOpportunities])]
            /\ closeListener' = [closeListener EXCEPT ![k] = TRUE]
            /\ UNCHANGED closeCode
    /\ UNCHANGED <<cycles, currentPrices, currentOpportunities, storedBatches,
                   broadcasts, crowdOpen, detectorVars, fetchVars, apiVars, dbVars, callVars, boundaryVars>>

\* The closing handshake of an open socket of client k begins.
ClientGoesAway(k) ==
    /\ readyState[k] = "OPEN"
    /\ readyState' = [readyState EXCEPT ![k] = "CLOSING"]
    /\ UNCHANGED <<cycles, currentPrices, currentOpportunities, storedBatches,
                   broadcasts, closeListener, closeCode, received, connectionCount,
                   crowdOpen, detectorVars, fetchVars, apiVars, dbVars, callVars, boundaryVars>>

\* The socket of client k is closed (handshake done or connection lost):
\* 'close' is emitted and runs the listener where one is registered.
SocketClosed(k) ==
    /\ readyState[k] \in {"OPEN", "CLOSING"}
    /\ readyState' = [readyState EXCEPT ![k] = "CLOSED"]
    /\ connectionCount' = IF closeListener[k] THEN connectionCount - 1
                                               ELSE connectionCount
    /\ UNCHANGED <<cycles, currentPrices, currentOpportunities, storedBatches,
                   broadcasts, closeListener, closeCode, received,
                   crowdOpen, detectorVars, fetchVars, apiVars, dbVars, callVars, boundaryVars>>

\* wss.on('connection') for a socket that is not followed individually.
CrowdConnection ==
    /\ IF connectionCount + 1 > MAX_CONNECTIONS
       THEN /\ connectionCount' = (connectionCount + 1) - 1
            /\ crowdOpen' = crowdOpen
       ELSE /\ connectionCount' = connectionCount + 1
            /\ crowdOpen' = crowdOpen + 1
    /\ UNCHANGED <<cycles, currentPrices, currentOpportunities, storedBatches,
                   broadcasts, readyState, closeListener, closeCode, received,
                   detectorVars, fetchVars, apiVars, dbVars, callVars, boundaryVars>>

\* An accepted socket that is not followed individually is closed.
CrowdClosed ==
    /\ crowdOpen > 0
    /\ crowdOpen' = crowdOpen - 1
    /\ connectionCount' = connectionCount - 1
    /\ UNCHANGED <<cycles, currentPrices, currentOpportunities, storedBatches,
                   broadcasts, readyState, closeListener, closeCode, received,
                   detectorVars, fetchVars, apiVars, dbVars, callVars, boundaryVars>>

InitServer == DetectorIdle /\ FetchIdle /\ ServerIdle /\ ApiIdle /\ DbIdle /\ CallsIdle /\ BoundaryIdle

\* The polling cycle and the clients followed individually.
NextServer ==
    \/ TimerFires
    \/ \E c \in 1..MaxCycles, ps \in PriceFeeds : GetAllPricesReturns(c, ps)
    \/ \E c \in 1..MaxCycles : SavePricesResolved(c)
    \/ \E c \in 1..MaxCycles : SavePricesRejected(c)
    \/ \E k \in Clients : Connection(k)
    \/ \E k \in Clients : ClientGoesAway(k)
    \/ \E k \in Clients : SocketClosed(k)

SpecServer == InitServer /\ [][NextServer]_vars

\* Connections and disconnections alone, up to the connection limit.
NextConnections ==
    \/ \E k \in Clients : Connection(k)
    \/ \E k \in Clients : ClientGoesAway(k)
    \/ \E k \in Clients : SocketClosed(k)
    \/ CrowdConnection
    \/ CrowdClosed

SpecConnections == InitServer /\ [][NextConnections]_vars

\* --------------------------------------------------------------------- HTTP API
\* A query string value is a sequence of characters; an absent parameter
\* (undefined) is Null.
HoursParams ==
    { Null,
      Some(<<"4", "8">>), Some(<<"1">>), Some(<<"1", "6", "8">>),
      Some(<<"0">>), Some(<<"1", "6", "9">>), Some(<<"-", "1">>),
      Some(<<"a", "b", "c">>), Some(<<"1", "2", "a", "b", "c">>), Some(<<>>) }

IsDigit(ch) == ch \in {"0", "1", "2", "3", "4", "5", "6", "7", "8", "9"}

DigitValue(ch) ==
    CASE ch = "0" -> 0 [] ch = "1" -> 1 [] ch = "2" -> 2 [] ch = "3" -> 3
      [] ch = "4" -> 4 [] ch = "5" -> 5 [] ch = "6" -> 6 [] ch = "7" -> 7
      [] ch = "8" -> 8 [] ch = "9" -> 9

\* The value of the digits of str from position i up to the first character
\* that is not a digit, appended to acc.
RECURSIVE parseDigits(_, _, _)
parseDigits(str, i, acc) ==
    IF i > Len(str) \/ ~IsDigit(str[i]) THEN acc
    ELSE parseDigits(str, i + 1, acc * 10 + DigitValue(str[i]))

\* parseInt(string): leading blanks are skipped, a sign is taken, then the
\* longest run of digits is read and the rest is ignored; without a digit
\* the result is NaN (Null).  parseInt(undefined) is NaN.
RECURSIVE parseInt(_)
parseInt(str) ==
    IF str = Null \/ str = <<>> THEN Null
    ELSE IF Val(str) = <<>> THEN Null
    ELSE LET t == Val(str)
         IN  IF t[1] = " " THEN parseInt(Some(Tail(t)))
             ELSE LET signed == t[1] \in {"-", "+"}
                      first == IF signed THEN 2 ELSE 1
                  IN  IF first > Len(t) \/ ~IsDigit(t[first]) THEN Null
                      ELSE IF t[1] = "-" THEN Some(0 - parseDigits(t, first, 0))
                      ELSE Some(parseDigits(t, first, 0))

\* The middleware: the status it answers with (0 when it calls next()) and
\* req.validatedHours.
validateHoursParam(hours) ==
    IF hours # Null
    THEN LET parsed == parseInt(hours)
         IN  IF parsed = Null \/ Val(parsed) < 1 \/ Val(parsed) > 168
             THEN [status |-> 400, validatedHours |-> Null]
             ELSE [status |-> 0, validatedHours |-> parsed]
    ELSE [status |-> 0, validatedHours |-> Some(24)]

\* A route registered behind validateHoursParam receives GET ?hours=h: the
\* middleware answers 400, or the handler calls database.getPriceHistory
\* with req.validatedHours and awaits it.
ValidatedRequest(route, h) ==
    /\ pendingRequest = Null
    /\ Len(responses) < MaxRequests
    /\ LET v == validateHoursParam(h)
       IN  IF v.status = 400
           THEN /\ responses' = Append(responses, [route |-> route, hours |-> h,
                                                   status |-> 400, queried |-> Null])
                /\ UNCHANGED <<pendingRequest, historyQueries>>
           ELSE /\ historyQueries' = Append(historyQueries, Val(v.validatedHours))
                /\ pendingRequest' = Some([route |-> route, hours |-> h,
                                           queried |-> v.validatedHours])
                /\ UNCHANGED responses
    /\ UNCHANGED <<detectorVars, fetchVars, serverVars, dbVars, callVars, boundaryVars>>

\* GET /api/price-history?hours=h
PriceHistoryRequest(h) == ValidatedRequest("/api/price-history", h)

\* GET /api/export-csv?hours=h
ExportCsvRequest(h) == ValidatedRequest("/api/export-csv", h)

\* The same two routes as registered by the copy of the server in
\* server/index.js, without middleware: hours = parseInt(req.query.hours) || 24.
UnvalidatedRequest(route, h) ==
    /\ pendingRequest = Null
    /\ Len(responses) < MaxRequests
    /\ LET parsed == parseInt(h)
           hours == IF parsed = Null \/ Val(parsed) = 0 THEN 24 ELSE Val(parsed)
       IN  /\ historyQueries' = Append(historyQueries, hours)
           /\ pendingRequest' = Some([route |-> route, hours |-> h,
                                      queried |-> Some(hours)])
    /\ UNCHANGED <<responses, detectorVars, fetchVars, serverVars, dbVars, callVars, boundaryVars>>

\* database.getPriceHistory resolved: the rows are sent with status 200.
GetPriceHistoryResolved ==
    /\ pendingRequest # Null
    /\ responses' = Append(responses, [route |-> Val(pendingRequest).route,
                                        hours |-> Val(pendingRequest).hours,
                                        status |-> 200,
                                        queried |-> Val(pendingRequest).queried])
    /\ pendingRequest' = Null
    /\ UNCHANGED <<historyQueries, detectorVars, fetchVars, serverVars, dbVars, callVars, boundaryVars>>

\* database.getPriceHistory rejected: the catch block answers 500.
GetPriceHistoryRejected ==
    /\ pendingRequest # Null
    /\ responses' = Append(responses, [route |-> Val(pendingRequest).route,
                                        hours |-> Val(pendingRequest).hours,
                                        status |-> 500,
                                        queried |-> Val(pendingRequest).queried])
    /\ pendingRequest' = Null
    /\ UNCHANGED <<historyQueries, detectorVars, fetchVars, serverVars, dbVars, callVars, boundaryVars>>

InitApi == DetectorIdle /\ FetchIdle /\ ServerIdle /\ ApiIdle /\ DbIdle /\ CallsIdle /\ BoundaryIdle

NextApi ==
    \/ \E h \in HoursParams : PriceHistoryRequest(h)
    \/ \E h \in HoursParams : ExportCsvRequest(h)
    \/ \E h \in HoursParams : UnvalidatedRequest("/api/price-history", h)
    \/ \E h \in HoursParams : UnvalidatedRequest("/api/export-csv", h)
    \/ GetPriceHistoryResolved
    \/ GetPriceHistoryRejected

SpecApi == InitApi /\ [][NextApi]_vars

\* --------------------------------------------------------------------- Database
\* savePrices(ps) is called: the INSERT statement is prepared, one run per
\* quote and the finalize are queued on it, and the promise is returned.
savePrices(ps) ==
    /\ dbCalls < MaxDbCalls
    /\ saveOp.pc # "running"
    /\ dbCalls' = dbCalls + 1
    /\ saveOp' = [pc |-> "running", prices |-> ps, next |-> 1, inserted |-> {},
                  promise |-> "pending"]
    /\ UNCHANGED <<price_history, arbitrage_opportunities, clearOp,
                   detectorVars, fetchVars, serverVars, apiVars, callVars,
                   boundaryVars>>

\* The next queued stmt.run inserts its row.
InsertSucceeds ==
    /\ saveOp.pc = "running"
    /\ saveOp.next <= Len(saveOp.prices)
    /\ price_history' = Append(price_history, saveOp.prices[saveOp.next])
    /\ saveOp' = [saveOp EXCEPT !.next = @ + 1, !.inserted = @ \cup {saveOp.next}]
    /\ UNCHANGED <<arbitrage_opportunities, clearOp, dbCalls,
                   detectorVars, fetchVars, serverVars, apiVars, callVars,
                   boundaryVars>>

\* The next queued stmt.run fails (constraint, busy, disk): no row; the run
\* was given no callback, so nobody is told.
InsertFails ==
    /\ saveOp.pc = "running"
    /\ saveOp.next <= Len(saveOp.prices)
    /\ saveOp' = [saveOp EXCEPT !.next = @ + 1]
    /\ UNCHANGED <<price_history, arbitrage_opportunities, clearOp, dbCalls,
                   detectorVars, fetchVars, serverVars, apiVars, callVars,
                   boundaryVars>>

\* The runs are through and stmt.finalize calls back without error: resolve().
FinalizeSucceeds ==
    /\ saveOp.pc = "running"
    /\ saveOp.next > Len(saveOp.prices)
    /\ saveOp' = [saveOp EXCEPT !.pc = "done", !.promise = "resolved"]
    /\ UNCHANGED <<price_history, arbitrage_opportunities, clearOp, dbCalls,
                   detectorVars, fetchVars, serverVars, apiVars, callVars,
                   boundaryVars>>

\* stmt.finalize calls back with an error: reject(err).
FinalizeFails ==
    /\ saveOp.pc = "running"
    /\ saveOp.next > Len(saveOp.prices)
    /\ saveOp' = [saveOp EXCEPT !.pc = "done", !.promise = "rejected"]
    /\ UNCHANGED <<price_history, arbitrage_opportunities, clearOp, dbCalls,
                   detectorVars, fetchVars, serverVars, apiVars, callVars,
                   boundaryVars>>

\* A promise settles once: resolve and reject on a settled promise do nothing.
settle(op, outcome, err) ==
    IF op.promise = "pending"
    THEN [op EXCEPT !.promise = outcome, !.error = err]
    ELSE op

\* clearAllData is called: inside db.serialize the two DELETE statements are
\* queued, price_history first, and the promise is returned.
clearAllData ==
    /\ dbCalls < MaxDbCalls
    /\ clearOp.pc # "running"
    /\ dbCalls' = dbCalls + 1
    /\ clearOp' = [pc |-> "running", priceHistoryDelete |-> "queued",
                   opportunitiesDelete |-> "queued", promise |-> "pending",
                   error |-> "none"]
    /\ UNCHANGED <<price_history, arbitrage_opportunities, saveOp,
                   detectorVars, fetchVars, serverVars, apiVars, callVars,
                   boundaryVars>>

\* DELETE FROM price_history has run and its callback is called: on an
\* error it rejects and returns, otherwise it only logs.
DeletePriceHistoryDone(ok) ==
    /\ clearOp.pc = "running"
    /\ clearOp.priceHistoryDelete = "queued"
    /\ IF ok
       THEN /\ price_history' = <<>>
            /\ clearOp' = [clearOp EXCEPT !.priceHistoryDelete = "ok"]
       ELSE /\ price_history' = price_history
            /\ clearOp' = [settle(clearOp, "rejected", "price_history")
                              EXCEPT !.priceHistoryDelete = "error"]
    /\ UNCHANGED <<arbitrage_opportunities, saveOp, dbCalls,
                   detectorVars, fetchVars, serverVars, apiVars, callVars,
                   boundaryVars>>

\* Variant: the second callback settles the promise whatever its state.
DeleteOpportunitiesDone_overrides(ok) ==
    /\ clearOp.pc = "running"
    /\ clearOp.priceHistoryDelete # "queued"
    /\ clearOp.opportunitiesDelete = "queued"
    /\ IF ok
       THEN /\ arbitrage_opportunities' = 0
            /\ clearOp' = [clearOp EXCEPT !.promise = "resolved", !.error = "none",
                              !.opportunitiesDelete = "ok", !.pc = "done"]
       ELSE /\ arbitrage_opportunities' = arbitrage_opportunities
            /\ clearOp' = [clearOp EXCEPT !.promise = "rejected",
                              !.error = "arbitrage_opportunities",
                              !.opportunitiesDelete = "error", !.pc = "done"]
    /\ UNCHANGED <<price_history, saveOp, dbCalls,
                   detectorVars, fetchVars, serverVars, apiVars, callVars,
                   boundaryVars>>

\* DELETE FROM arbitrage_opportunities has run, after the first DELETE
\* whatever its outcome, and its callback is called: on an error it
\* rejects, otherwise it resolves.
DeleteOpportunitiesDone(ok) ==
    /\ clearOp.pc = "running"
    /\ clearOp.priceHistoryDelete # "queued"
    /\ clearOp.opportunitiesDelete = "queued"
    /\ IF ok
       THEN /\ arbitrage_opportunities' = 0
            /\ clearOp' = [settle(clearOp, "resolved", "none")
                              EXCEPT !.opportunitiesDelete = "ok", !.pc = "done"]
       ELSE /\ arbitrage_opportunities' = arbitrage_opportunities
            /\ clearOp' = [settle(clearOp, "rejected", "arbitrage_opportunities")
                              EXCEPT !.opportunitiesDelete = "error", !.pc = "done"]
    /\ UNCHANGED <<price_history, saveOp, dbCalls,
                   detectorVars, fetchVars, serverVars, apiVars, callVars,
                   boundaryVars>>

\* The database file may hold opportunities of an earlier run.
InitDb ==
    /\ DetectorIdle /\ FetchIdle /\ ServerIdle /\ ApiIdle /\ CallsIdle /\ BoundaryIdle
    /\ price_history = <<>>
    /\ arbitrage_opportunities \in {0, 2}
    /\ saveOp = NoSaveOp
    /\ clearOp = NoClearOp
    /\ dbCalls = 0

NextDb ==
    \/ \E ps \in PriceFeeds : savePrices(ps)
    \/ InsertSucceeds
    \/ InsertFails
    \/ FinalizeSucceeds
    \/ FinalizeFails
    \/ clearAllData
    \/ \E ok \in BOOLEAN : DeletePriceHistoryDone(ok)
    \/ \E ok \in BOOLEAN : DeleteOpportunitiesDone(ok)

SpecDb == InitDb /\ [][NextDb]_vars

\* --------------------------------------------- FeeCalculator, called directly
\* Arguments of the direct calls: every exchange of the fee table and one
\* identifier that has no entry, whole-BTC amounts, two price levels.
FeeExchanges ==
    {"bitFlyer", "Coincheck", "Zaif", "bitbank", "BITPoint", "GMOコイン", "Exchange1"}
FeeAmounts == {1, 2}
FeePrices == {1000, 50020}

\* feeCalculator.calculateTradingCosts(exchange, amount, price, side, orderType)
CalculateTradingCosts ==
    /\ calls < MaxCalls
    /\ \E exchange \in FeeExchanges, amount \in FeeAmounts, price \in FeePrices,
          side \in {"buy", "sell"}, orderType \in {"maker", "taker"} :
          returned' = Some([fn |-> "calculateTradingCosts",
                            args |-> <<exchange, amount, price, side, orderType>>,
                            value |-> calculateTradingCosts(exchange, amount, price,
                                                            side, orderType)])
    /\ calls' = calls + 1
    /\ UNCHANGED <<detectorVars, fetchVars, serverVars, apiVars, dbVars, boundaryVars>>

\* feeCalculator.calculateArbitrageCosts(buyExchange, sellExchange, amount,
\* buyPrice, sellPrice) with arguments from the given sets
CalculateArbitrageCostsOn(exchanges, amounts, levels) ==
    /\ calls < MaxCalls
    /\ \E buyExchange \in exchanges, sellExchange \in exchanges,
          amount \in amounts, buyPrice \in levels, sellPrice \in levels :
          returned' = Some([fn |-> "calculateArbitrageCosts",
                            args |-> <<buyExchange, sellExchange, amount,
                                       buyPrice, sellPrice>>,
                            value |-> calculateArbitrageCosts(buyExchange, sellExchange,
                                                              amount, buyPrice, sellPrice)])
    /\ calls' = calls + 1
    /\ UNCHANGED <<detectorVars, fetchVars, serverVars, apiVars, dbVars, boundaryVars>>

CalculateArbitrageCosts == CalculateArbitrageCostsOn(FeeExchanges, FeeAmounts, FeePrices)

InitFees == DetectorIdle /\ FetchIdle /\ ServerIdle /\ ApiIdle /\ DbIdle /\ CallsIdle /\ BoundaryIdle

NextFees ==
    \/ CalculateTradingCosts
    \/ CalculateArbitrageCosts

SpecFees == InitFees /\ [][NextFees]_vars

\* ------------------------------------- ArbitrageDetector helpers, called directly
DigitChar(d) == <<"0", "1", "2", "3", "4", "5", "6", "7", "8", "9">>[d + 1]

\* Decimal digits of n >= 0, at least width of them.
RECURSIVE digitsOf(_, _)
digitsOf(n, width) ==
    IF n < 10 /\ width <= 1 THEN <<DigitChar(n)>>
    ELSE Append(digitsOf(n \div 10, width - 1), DigitChar(n % 10))

\* Number.prototype.toLocaleString() of a whole number n >= 0 in the default
\* locale: groups of three digits separated by commas.
RECURSIVE toLocaleString(_)
toLocaleString(n) ==
    IF n < 1000 THEN digitsOf(n, 1)
    ELSE toLocaleString(n \div 1000) \o <<",">> \o digitsOf(n % 1000, 3)

\* Number.prototype.toFixed(2) of the fraction r >= 0: rounded to hundredths.
toFixed2(r) ==
    LET hundredths == (r.num * 200 + r.den) \div (2 * r.den)
    IN  digitsOf(hundredths \div 100, 1) \o <<".">> \o digitsOf(hundredths % 100, 2)

\* The message, as the sequence of its pieces.
formatOpportunityMessage(opportunity) ==
    <<"Arbitrage Opportunity: Buy at ", opportunity.exchangeFrom, " (Ask: ¥">>
    \o toLocaleString(opportunity.priceFrom)
    \o <<") and sell at ", opportunity.exchangeTo, " (Bid: ¥">>
    \o toLocaleString(opportunity.priceTo)
    \o <<") for ">>
    \o toFixed2(opportunity.percentageDifference)
    \o <<"% profit">>

\* In whole JPY.
calculatePotentialProfit(opportunity, amount) ==
    LET buyValue == amount * opportunity.priceFrom
        sellValue == amount * opportunity.priceTo
    IN  sellValue - buyValue

\* detector.formatOpportunityMessage(opportunity) on a returned opportunity
FormatOpportunityMessage ==
    /\ calls < MaxCalls
    /\ \E n \in 1..Len(result) :
          returned' = Some([fn |-> "formatOpportunityMessage",
                            args |-> <<result[n]>>,
                            value |-> formatOpportunityMessage(result[n])])
    /\ calls' = calls + 1
    /\ UNCHANGED <<detectorVars, fetchVars, serverVars, apiVars, dbVars, boundaryVars>>

\* detector.calculatePotentialProfit(opportunity, amount) on a returned
\* opportunity
CalculatePotentialProfit ==
    /\ calls < MaxCalls
    /\ \E n \in 1..Len(result), amount \in FeeAmounts :
          returned' = Some([fn |-> "calculatePotentialProfit",
                            args |-> <<result[n], amount>>,
                            value |-> calculatePotentialProfit(result[n], amount)])
    /\ calls' = calls + 1
    /\ UNCHANGED <<detectorVars, fetchVars, serverVars, apiVars, dbVars, boundaryVars>>

\* The quote lists the detector is given when its helpers are called too.
CallLists ==
    BreakEvenLists \cup TieLists
    \cup { << [exchange |-> "GMOコイン", bid |-> Some(50020), ask |-> Some(50010)],
              [exchange |-> "bitFlyer", bid |-> Some(1001), ask |-> Some(1000)] >> }

InitCalls ==
    /\ prices \in CallLists
    /\ db \in BOOLEAN
    /\ threshold = DefaultThreshold
    /\ exchangeFees = FeeTable
    /\ now = 0
    /\ runs = 0
    /\ result = <<>>
    /\ prevResult = <<>>
    /\ saveCalls = <<>>
    /\ totalSaveCalls = 0
    /\ pendingSaves = 0
    /\ savedRows = 0
    /\ saveErrors = 0
    /\ FetchIdle /\ ServerIdle /\ ApiIdle /\ DbIdle /\ CallsIdle /\ BoundaryIdle

\* The exchanges and the prices of the quote list.
QuotedExchanges == { prices[k].exchange : k \in 1..Len(prices) }
QuotedPrices ==
    { Val(prices[k].ask) : k \in { n \in 1..Len(prices) : prices[n].ask # Null } }
    \cup { Val(prices[k].bid) : k \in { n \in 1..Len(prices) : prices[n].bid # Null } }

\* The four calls and the clock; the costs are asked for 1 BTC between the
\* quoted exchanges at the quoted prices, as the detector does.  The save
\* promises a detection starts stay pending here (their settling is followed
\* in Spec).
NextCalls ==
    \/ Detect
    \/ Tick
    \/ CalculateArbitrageCostsOn(QuotedExchanges, {1}, QuotedPrices)
    \/ FormatOpportunityMessage
    \/ CalculatePotentialProfit

SpecCalls == InitCalls /\ [][NextCalls]_vars

\* ------------------------------------------- the detector on every exchange pair
\* Two quotes with the same crossed prices, for every ordered pair of
\* exchanges of the fee table and the one without entry: both directions are
\* returned.
PairLists ==
    { << [exchange |-> a, bid |-> Some(50020), ask |-> Some(1000)],
         [exchange |-> b, bid |-> Some(50020), ask |-> Some(1000)] >> :
      a \in FeeExchanges, b \in FeeExchanges } \
    { << [exchange |-> a, bid |-> Some(50020), ask |-> Some(1000)],
         [exchange |-> a, bid |-> Some(50020), ask |-> Some(1000)] >> :
      a \in FeeExchanges }

InitPairs ==
    /\ prices \in PairLists
    /\ db \in BOOLEAN
    /\ threshold = DefaultThreshold
    /\ exchangeFees = FeeTable
    /\ now = 0
    /\ runs = 0
    /\ result = <<>>
    /\ prevResult = <<>>
    /\ saveCalls = <<>>
    /\ totalSaveCalls = 0
    /\ pendingSaves = 0
    /\ savedRows = 0
    /\ saveErrors = 0
    /\ FetchIdle /\ ServerIdle /\ ApiIdle /\ DbIdle /\ CallsIdle /\ BoundaryIdle

SpecPairs == InitPairs /\ [][Next]_vars

\* ---------------------------------------------------------------- ErrorBoundary
\* Errors thrown below the boundary and the component stacks React reports.
Errors == {"TypeError: prices.map is not a function", "Error: chart failed"}
ComponentStacks == {"in PriceChart", "in OpportunityList"}

NoError == [hasError |-> FALSE, error |-> Null, errorInfo |-> Null]

\* static getDerivedStateFromError(error): the partial state it returns.
getDerivedStateFromError(error) == [hasError |-> TRUE]

\* setState / derived state: the partial state is merged into this.state.
setState(partial) ==
    [f \in DOMAIN state |-> IF f \in DOMAIN partial THEN partial[f] ELSE state[f]]

\* render(): the children, the fallback, or the TypeError of reading
\* componentStack of null.
render ==
    IF state.hasError
    THEN IF state.errorInfo = Null THEN "TypeError" ELSE "fallback"
    ELSE "children"

\* A descendant throws while the children are shown: React calls
\* getDerivedStateFromError in the render phase and merges what it returns.
ChildThrows(error, stack) ==
    /\ lifecycle = "mounted"
    /\ rendered[Len(rendered)] = "children"
    /\ childErrors < MaxChildErrors
    /\ childErrors' = childErrors + 1
    /\ state' = setState(getDerivedStateFromError(error))
    /\ caught' = Some([error |-> error, errorInfo |-> [componentStack |-> stack]])
    /\ lifecycle' = "derived"
    /\ UNCHANGED rendered
    /\ UNCHANGED <<detectorVars, fetchVars, serverVars, apiVars, dbVars, callVars>>

\* React renders the boundary with its new state: after the derived state
\* (still in the render phase, componentDidCatch has not run) or after a
\* setState.
Render ==
    /\ lifecycle \in {"derived", "updated"}
    /\ rendered' = Append(rendered, render)
    /\ lifecycle' = IF render = "TypeError" THEN "threw"
                    ELSE IF lifecycle = "derived" THEN "commit"
                    ELSE "mounted"
    /\ UNCHANGED <<state, caught, childErrors>>
    /\ UNCHANGED <<detectorVars, fetchVars, serverVars, apiVars, dbVars, callVars>>

\* The render of the boundary threw: React gives the boundary up and hands
\* the new error to the enclosing boundary, or unmounts the root.
BoundaryFails ==
    /\ lifecycle = "threw"
    /\ lifecycle' = "unmounted"
    /\ caught' = Null
    /\ UNCHANGED <<state, rendered, childErrors>>
    /\ UNCHANGED <<detectorVars, fetchVars, serverVars, apiVars, dbVars, callVars>>

\* componentDidCatch(error, errorInfo), called in the commit phase; a
\* renderer that commits although the render threw calls it as well.
ComponentDidCatch ==
    /\ lifecycle \in {"commit", "threw"}
    /\ state' = setState(Val(caught))
    /\ caught' = Null
    /\ lifecycle' = "updated"
    /\ UNCHANGED <<rendered, childErrors>>
    /\ UNCHANGED <<detectorVars, fetchVars, serverVars, apiVars, dbVars, callVars>>

\* A click on the retry button of the fallback.
Retry ==
    /\ lifecycle = "mounted"
    /\ rendered[Len(rendered)] = "fallback"
    /\ state' = setState(NoError)
    /\ lifecycle' = "updated"
    /\ UNCHANGED <<caught, rendered, childErrors>>
    /\ UNCHANGED <<detectorVars, fetchVars, serverVars, apiVars, dbVars, callVars>>

\* A click on the reload button of the fallback: window.location.reload()
\* loads the page again, the boundary is constructed anew.
Reload ==
    /\ lifecycle = "mounted"
    /\ rendered[Len(rendered)] = "fallback"
    /\ state' = NoError
    /\ caught' = Null
    /\ rendered' = <<"children">>
    /\ UNCHANGED <<lifecycle, childErrors>>
    /\ UNCHANGED <<detectorVars, fetchVars, serverVars, apiVars, dbVars, callVars>>

InitBoundary == DetectorIdle /\ FetchIdle /\ ServerIdle /\ ApiIdle /\ DbIdle /\ CallsIdle /\ BoundaryIdle

NextBoundary ==
    \/ \E error \in Errors, stack \in ComponentStacks : ChildThrows(error, stack)
    \/ Render
    \/ BoundaryFails
    \/ ComponentDidCatch
    \/ Retry
    \/ Reload

SpecBoundary == InitBoundary /\ [][NextBoundary]_vars

\* ------------------------------------------------------------------ properties
\* Reference reading of the gate, on the quotes: the direction A -> B has
\* both prices, A.ask < B.bid and (B.bid - A.ask) / A.ask * 100 >= 0.1.
Crossed(A, B) ==
    A.ask # Null /\ B.bid # Null /\ Val(A.ask) > 0 /\ Val(A.ask) < Val(B.bid)
SpreadAtLeastThreshold(A, B) == (Val(B.bid) - Val(A.ask)) * 1000 >= Val(A.ask)
Passes(A, B) == Crossed(A, B) /\ SpreadAtLeastThreshold(A, B)

\* Positions of the result that hold the direction A -> B.
OppsOf(A, B) ==
    { k \in 1..Len(result) :
        result[k].exchangeFrom = A.exchange /\ result[k].exchangeTo = B.exchange }

QuotePairs == { <<a, b>> \in (1..Len(prices)) \X (1..Len(prices)) : a # b }

\* C1: every ordered pair of different quotes that passes the gate (equality
\* with the threshold included) is returned exactly once, as an opportunity
\* A -> B with priceFrom = A.ask, priceTo = B.bid and
\* priceDifference = B.bid - A.ask, whatever its net profit.
C1_PassingPairEmittedOnce ==
    runs > 0 =>
        \A p \in QuotePairs :
            LET A == prices[p[1]]
                B == prices[p[2]]
            IN  Passes(A, B) =>
                    /\ Cardinality(OppsOf(A, B)) = 1
                    /\ \A k \in OppsOf(A, B) :
                          /\ result[k].priceFrom = Val(A.ask)
                          /\ result[k].priceTo = Val(B.bid)
                          /\ result[k].priceDifference = Val(B.bid) - Val(A.ask)

\* A pair exactly on the threshold was returned with a negative net profit.
C1_Witness ==
    /\ runs > 0
    /\ \E p \in QuotePairs :
          LET A == prices[p[1]]
              B == prices[p[2]]
          IN  /\ Crossed(A, B)
              /\ (Val(B.bid) - Val(A.ask)) * 1000 = Val(A.ask)
              /\ \E k \in OppsOf(A, B) : result[k].netProfit < 0

\* C2: every returned opportunity has priceFrom < priceTo and
\* percentageDifference = priceDifference / priceFrom * 100 >= threshold, and
\* no direction whose spread percentage is below the threshold is returned.
C2_ReturnedOnlyAboveThreshold ==
    /\ \A k \in 1..Len(result) :
          LET o == result[k]
          IN  /\ o.priceFrom > 0
              /\ o.priceFrom < o.priceTo
              /\ o.priceDifference = o.priceTo - o.priceFrom
              /\ o.percentageDifference = Rat(o.priceDifference * 100, o.priceFrom)
              /\ o.priceDifference * 1000 >= o.priceFrom
    /\ \A p \in QuotePairs :
          LET A == prices[p[1]]
              B == prices[p[2]]
          IN  (Crossed(A, B) /\ ~SpreadAtLeastThreshold(A, B)) => OppsOf(A, B) = {}

\* A call returned opportunities while a crossed pair stayed below the gate.
C2_Witness ==
    /\ runs > 0
    /\ Len(result) > 0
    /\ \E p \in QuotePairs :
          /\ Crossed(prices[p[1]], prices[p[2]])
          /\ ~SpreadAtLeastThreshold(prices[p[1]], prices[p[2]])

C4_RankedByProfitability ==
    \A i, j \in 1..Len(result) :
        i < j =>
            /\ ~(result[j].isProfitableAfterFees /\ ~result[i].isProfitableAfterFees)
            /\ result[i].netProfit >= result[j].netProfit

\* The sort reordered a list of three or more opportunities that holds both
\* profitable and unprofitable ones.
C4_Witness ==
    /\ runs > 0
    /\ db
    /\ Len(result) >= 3
    /\ result # saveCalls
    /\ \E i, j \in 1..Len(result) :
          result[i].isProfitableAfterFees /\ ~result[j].isProfitableAfterFees

WithoutTimestamps(s) ==
    [k \in 1..Len(s) |-> [f \in DOMAIN s[k] \ {"timestamp"} |-> s[k][f]]]

UsableQuotes == { k \in 1..Len(prices) : Truthy(prices[k].bid) \/ Truthy(prices[k].ask) }

\* C6: when fewer than two quotes are usable (so for every list of length 0
\* or 1) the call returns the empty list and hands nothing to the database.
C6_FewUsableQuotesGiveNothing ==
    (runs > 0 /\ Cardinality(UsableQuotes) < 2) =>
        /\ result = <<>>
        /\ saveCalls = <<>>
        /\ totalSaveCalls = 0

\* A call on a longer list whose only usable quote has its ask below its bid.
C6_Witness ==
    /\ runs > 0
    /\ db
    /\ Len(prices) >= 2
    /\ \E k \in 1..Len(prices) :
          /\ UsableQuotes = {k}
          /\ Crossed(prices[k], prices[k])

\* Reference fee schedule, read off the fee table and its fallback.
RefTaker(e) == IF e \in DOMAIN FeeTable THEN FeeTable[e].tradingFee.taker ELSE 10
RefJpy(e) == IF e \in DOMAIN FeeTable THEN FeeTable[e].withdrawalFee.jpy ELSE 500
RefBtc(e) == IF e \in DOMAIN FeeTable THEN FeeTable[e].withdrawalFee.btc ELSE 5
RefTotalFees(buy, sell, buyPrice, sellPrice) ==
    buyPrice * RefTaker(buy) + sellPrice * RefTaker(sell)
    + RefJpy(sell) * Scale + (RefBtc(buy) + 1) * buyPrice

\* C7: when both directions between two quotes pass the gate, both
\* opportunities are returned and each carries the fees of its own
\* direction (buy exchange = its exchangeFrom, sell exchange = its exchangeTo).
C7_BothDirectionsOwnFees ==
    runs > 0 =>
        \A p \in QuotePairs :
            LET A == prices[p[1]]
                B == prices[p[2]]
            IN  (Passes(A, B) /\ Passes(B, A)) =>
                    /\ Cardinality(OppsOf(A, B) \cup OppsOf(B, A)) = 2
                    /\ \E k \in OppsOf(A, B) :
                          /\ result[k].feeBreakdown.buyExchange.exchange = A.exchange
                          /\ result[k].feeBreakdown.sellExchange.exchange = B.exchange
                          /\ result[k].totalFees =
                               RefTotalFees(A.exchange, B.exchange, Val(A.ask), Val(B.bid))
                          /\ result[k].netProfit =
                               (Val(B.bid) - Val(A.ask)) * Scale - result[k].totalFees

\* Both directions of a pair were returned, with different fees.
C7_Witness ==
    /\ runs > 0
    /\ \E p \in QuotePairs :
          LET A == prices[p[1]]
              B == prices[p[2]]
          IN  /\ Passes(A, B) /\ Passes(B, A)
              /\ \E k \in OppsOf(A, B), l \in OppsOf(B, A) :
                    result[k].totalFees # result[l].totalFees

Unregistered(e) == e \notin DOMAIN FeeTable

PassingPairs == { p \in QuotePairs : Passes(prices[p[1]], prices[p[2]]) }

\* C9: the returned list does not depend on how the saves end: whatever
\* number of saves has failed, the list holds every passing pair and nothing
\* else, a settling save changes neither the list nor the number of save
\* calls (no retry), and every call made is pending, stored or logged.
C9_SavesDoNotTouchResult ==
    /\ [](runs > 0 =>
            /\ \A p \in PassingPairs : OppsOf(prices[p[1]], prices[p[2]]) # {}
            /\ Len(result) = Cardinality(PassingPairs)
            /\ totalSaveCalls = (IF db THEN runs * Len(result) ELSE 0)
            /\ pendingSaves + savedRows + saveErrors = totalSaveCalls)
    /\ [][(saveErrors' # saveErrors \/ savedRows' # savedRows) =>
            /\ result' = result
            /\ prevResult' = prevResult
            /\ saveCalls' = saveCalls
            /\ totalSaveCalls' = totalSaveCalls]_vars

\* After two calls, some saves have failed and some have succeeded.
C9_Witness ==
    /\ runs >= 2
    /\ Len(result) >= 2
    /\ saveErrors > 0
    /\ savedRows > 0

\* C10: a quote without ask is never a buy exchange and a quote without bid
\* never a sell exchange, but the other side of such a quote is still used:
\* a passing direction is returned even when the buyer has no bid or the
\* seller has no ask, and no returned price is zero.
C10_MissingSideOnly ==
    runs > 0 =>
        /\ \A p \in QuotePairs :
              LET A == prices[p[1]]
                  B == prices[p[2]]
              IN  /\ (A.ask = Null \/ B.bid = Null) => OppsOf(A, B) = {}
                  /\ (Passes(A, B) /\ (A.bid = Null \/ B.ask = Null)) =>
                        \E k \in OppsOf(A, B) :
                            /\ result[k].priceFrom = Val(A.ask)
                            /\ result[k].priceTo = Val(B.bid)
                            /\ result[k].bidFrom = A.bid
                            /\ result[k].askTo = B.ask
        /\ \A k \in 1..Len(result) : result[k].priceFrom # 0 /\ result[k].priceTo # 0

\* A buyer without bid sold to a seller without ask.
C10_Witness ==
    /\ runs > 0
    /\ \E p \in QuotePairs :
          /\ prices[p[1]].bid = Null
          /\ prices[p[2]].ask = Null
          /\ OppsOf(prices[p[1]], prices[p[2]]) # {}

\* C11: a quote whose ask is zero or negative is never the buy side of a
\* returned opportunity, and no returned ratio has a zero buy price as its
\* denominator (no percentageDifference or netProfitPercentage is Infinity
\* or NaN); the call completes on such a list.
C11_NonPositiveAskNeverBought ==
    runs > 0 =>
        /\ \A q \in 1..Len(prices) :
              (prices[q].ask # Null /\ Val(prices[q].ask) <= 0) =>
                  \A k \in 1..Len(result) : result[k].exchangeFrom # prices[q].exchange
        /\ \A k \in 1..Len(result) :
              /\ result[k].priceFrom > 0
              /\ result[k].percentageDifference.den # 0
              /\ result[k].netProfitPercentage.den # 0

\* A call returned opportunities from a list that holds a quote with ask 0
\* and a quote with a negative ask, each below a bid of the list.
C11_Witness ==
    /\ runs > 0
    /\ Len(result) > 0
    /\ \E q, r, t \in 1..Len(prices) :
          /\ prices[q].ask = Some(0)
          /\ prices[r].ask # Null /\ Val(prices[r].ask) < 0
          /\ Truthy(prices[t].bid) /\ t # q /\ t # r

\* C12: for every returned opportunity, isProfitableAfterFees is true exactly
\* when the spread of 1 BTC exceeds the fees of its direction, that is when
\* netProfit > 0 (breaking even gives false), and netProfitPercentage is
\* netProfit / priceFrom * 100.
C12_ProfitableIffNetPositive ==
    \A k \in 1..Len(result) :
        LET o == result[k]
        IN  /\ o.isProfitableAfterFees = (o.netProfit > 0)
            /\ o.isProfitableAfterFees =
                  (o.priceDifference * Scale >
                     RefTotalFees(o.exchangeFrom, o.exchangeTo, o.priceFrom, o.priceTo))
            /\ o.netProfitPercentage.num = o.netProfit
            /\ o.netProfitPercentage.den * 100 = o.priceFrom * Scale

\* A returned opportunity breaks even exactly.
C12_Witness ==
    /\ runs > 0
    /\ \E k \in 1..Len(result) :
          /\ result[k].netProfit = 0
          /\ ~result[k].isProfitableAfterFees
          /\ result[k].priceDifference > 0

\* Number of positions of s that hold x.
Occurrences(s, x) == Cardinality({ k \in 1..Len(s) : s[k] = x })

\* C13: with a database, one call hands every opportunity it returns to
\* saveArbitrageOpportunity exactly once and hands over nothing else (no
\* pair below the gate); without a database it makes no persistence call.
C13_SavedExactlyTheReturned ==
    runs > 0 =>
        IF db
        THEN /\ Len(saveCalls) = Len(result)
             /\ \A k \in 1..Len(result) :
                   Occurrences(saveCalls, result[k]) = Occurrences(result, result[k])
             /\ \A k \in 1..Len(saveCalls) :
                   /\ Occurrences(result, saveCalls[k]) = 1
                   /\ saveCalls[k].priceDifference * 1000 >= saveCalls[k].priceFrom
             /\ totalSaveCalls = runs * Len(result)
        ELSE /\ saveCalls = <<>>
             /\ totalSaveCalls = 0
             /\ pendingSaves = 0

\* A detector without database returned opportunities, a crossed pair of
\* the list staying below the gate.
C13_Witness ==
    /\ runs > 0
    /\ ~db
    /\ Len(result) >= 2
    /\ \E p \in QuotePairs :
          /\ Crossed(prices[p[1]], prices[p[2]])
          /\ ~SpreadAtLeastThreshold(prices[p[1]], prices[p[2]])

\* The exchanges whose fetcher returned a quote in the last getAllPrices call.
Succeeded == { i \in 1..Len(promises) : promises[i].value # Null }

PositionOf(e) == CHOOSE i \in 1..Len(ExchangeOrder) : ExchangeOrder[i] = e

\* C14: the promise of getAllPrices is never rejected; it resolves to the
\* quotes of exactly the exchanges whose fetch succeeded, each once, in the
\* order bitFlyer, Coincheck, Zaif, GMO, bitbank, BITPoint, whatever the
\* other fetches did, and to the empty list when every fetch failed.
C14_SucceededQuotesInOrder ==
    /\ allPrices.state # "rejected"
    /\ allPrices.state = "fulfilled" =>
          LET ps == Val(allPrices.value)
          IN  /\ Len(ps) = Cardinality(Succeeded)
              /\ \A i \in Succeeded : \E k \in 1..Len(ps) : ps[k] = TickerQuote(i)
              /\ \A k \in 1..Len(ps) : PositionOf(ps[k].exchange) \in Succeeded
              /\ \A k, l \in 1..Len(ps) :
                    k < l => PositionOf(ps[k].exchange) < PositionOf(ps[l].exchange)
              /\ Succeeded = {} => ps = <<>>

\* getAllPrices resolved after Coincheck, GMO and BITPoint had failed.
C14_Witness ==
    /\ allPrices.state = "fulfilled"
    /\ Succeeded = {1, 3, 5}
    /\ Len(Val(allPrices.value)) = 3

\* The invocations that end in this step with a non-empty quote list.
EndingCycles ==
    { c \in 1..MaxCycles :
        /\ cycles[c].pc \in {"fetching", "saving"}
        /\ cycles'[c].pc \in {"returned", "caught"}
        /\ cycles'[c].prices # <<>> }

\* C15 (as stated): an invocation of the polling cycle that got at least one
\* quote ends with its list stored, with currentPrices equal to its list and
\* currentOpportunities equal to the opportunities detected from it, and with
\* one price_update carrying both appended for every client whose socket is
\* OPEN and nothing sent to any other client.
C15_CycleStoresSetsAndBroadcasts ==
    [][\A c \in EndingCycles :
          LET ps == cycles'[c].prices
              update == [type |-> "price_update",
                         prices |-> ps,
                         opportunities |-> detectArbitrageOpportunities(ps),
                         timestamp |-> getJapanTime]
          IN  /\ storedBatches' = Append(storedBatches, ps)
              /\ currentPrices' = ps
              /\ currentOpportunities' = detectArbitrageOpportunities(ps)
              /\ \A k \in Clients :
                    received'[k] = IF readyState[k] = "OPEN"
                                   THEN Append(received[k], update)
                                   ELSE received[k]]_vars

\* Client k was accepted: its socket left CONNECTING without being refused.
Accepted(k) == readyState[k] # "CONNECTING" /\ closeCode[k] # 1013

\* C16: every accepted client has been sent exactly one initial_data, as the
\* first message of all, so before every price_update; it was sent by the
\* connection handler and carries currentPrices and currentOpportunities as
\* they were at that moment.  A client that was not accepted got nothing.
C16_InitialDataFirstAndOnce ==
    /\ [](\A k \in Clients :
            IF Accepted(k)
            THEN /\ Len(received[k]) >= 1
                 /\ received[k][1].type = "initial_data"
                 /\ \A i \in 2..Len(received[k]) : received[k][i].type = "price_update"
            ELSE received[k] = <<>>)
    /\ [][\A k \in Clients :
            (readyState[k] = "CONNECTING" /\ readyState'[k] = "OPEN") =>
                received'[k] = << [type |-> "initial_data",
                                   prices |-> currentPrices,
                                   opportunities |-> currentOpportunities] >>]_vars

\* A client that connected between two cycles holds an initial_data with an
\* opportunity followed by a price_update, while the other client, connected
\* before the first cycle, holds an empty initial_data and two updates.
C16_Witness ==
    \E k, l \in Clients :
        /\ Len(received[k]) = 2
        /\ received[k][1].type = "initial_data"
        /\ received[k][1].opportunities # <<>>
        /\ received[k][2].type = "price_update"
        /\ Len(received[l]) = 3
        /\ received[l][1].prices = <<>>

\* Accepted sockets of the followed clients whose close has not been emitted.
AcceptedNotClosed == { k \in Clients : Accepted(k) /\ readyState[k] # "CLOSED" }

IsInteger(str) ==
    /\ str # <<>>
    /\ LET body == IF str[1] = "-" THEN Tail(str) ELSE str
       IN  body # <<>> /\ \A i \in 1..Len(body) : IsDigit(body[i])

RECURSIVE DecimalValue(_)
DecimalValue(str) ==
    IF str = <<>> THEN 0
    ELSE IF str[1] = "-" THEN 0 - DecimalValue(Tail(str))
    ELSE DecimalValue(SubSeq(str, 1, Len(str) - 1)) * 10 + DigitValue(str[Len(str)])

\* The requests answered or waiting for the database.
Handled == { responses[i] : i \in 1..Len(responses) }
           \cup (IF pendingRequest = Null THEN {} ELSE {Val(pendingRequest)})

\* C18 (as stated): a request to /api/price-history or /api/export-csv whose
\* hours is not a number, or is a number outside 1..168, is answered with
\* 400 without a database query; without hours the database is queried with
\* 24; with a valid hours it is queried with that number.
C18_InvalidHoursRefused ==
    /\ \A r \in Handled :
          IF r.hours = Null THEN r.queried = Some(24)
          ELSE IF ~IsInteger(Val(r.hours)) THEN r.queried = Null
          ELSE IF DecimalValue(Val(r.hours)) < 1 \/ DecimalValue(Val(r.hours)) > 168
               THEN r.queried = Null
          ELSE r.queried = Some(DecimalValue(Val(r.hours)))
    /\ \A i \in 1..Len(responses) :
          responses[i].queried = Null <=> responses[i].status = 400
    /\ Len(historyQueries) = Cardinality({ i \in 1..Len(responses) :
                                             responses[i].queried # Null })
                             + (IF pendingRequest = Null THEN 0 ELSE 1)

\* C19 (as stated): a finished savePrices call has stored all of its quotes
\* or none of them, its promise is resolved only when all are stored, and
\* for an empty list it is resolved.
C19_SavePricesAllOrNothing ==
    saveOp.pc = "done" =>
        /\ saveOp.inserted = {} \/ saveOp.inserted = 1..Len(saveOp.prices)
        /\ saveOp.promise = "resolved" => saveOp.inserted = 1..Len(saveOp.prices)
        /\ saveOp.prices = <<>> => saveOp.promise = "resolved"

\* C20: the promise of clearAllData settles once and keeps its outcome; it
\* is resolved only when both DELETE statements succeeded, rejected with the
\* error of the first failing DELETE when one fails, and settled at the
\* latest when the second callback has run.
C20_ClearSettlesOnce ==
    /\ [](/\ clearOp.promise = "resolved" =>
                /\ clearOp.priceHistoryDelete = "ok"
                /\ clearOp.opportunitiesDelete = "ok"
          /\ clearOp.priceHistoryDelete = "error" =>
                clearOp.promise = "rejected" /\ clearOp.error = "price_history"
          /\ (clearOp.priceHistoryDelete = "ok" /\ clearOp.opportunitiesDelete = "error") =>
                clearOp.promise = "rejected" /\ clearOp.error = "arbitrage_opportunities"
          /\ (clearOp.priceHistoryDelete = "ok" /\ clearOp.opportunitiesDelete = "ok") =>
                clearOp.promise = "resolved"
          /\ clearOp.pc = "done" => clearOp.promise \in {"resolved", "rejected"})
    /\ [][(clearOp.promise \in {"resolved", "rejected"} /\ clearOp'.pc = clearOp.pc
              /\ dbCalls' = dbCalls) =>
             (clearOp'.promise = clearOp.promise /\ clearOp'.error = clearOp.error)]_vars
    /\ [][(clearOp.promise \in {"resolved", "rejected"} /\ clearOp.pc = "running") =>
             (clearOp'.promise = clearOp.promise /\ clearOp'.error = clearOp.error)]_vars

\* The first DELETE failed and the second one succeeded: resolve() was called
\* on the promise already rejected, which stays rejected.
C20_Witness ==
    /\ clearOp.pc = "done"
    /\ clearOp.priceHistoryDelete = "error"
    /\ clearOp.opportunitiesDelete = "ok"
    /\ clearOp.promise = "rejected"
    /\ clearOp.error = "price_history"

\* The last direct call, when it was a call of fn.
LastCall(fn) == IF returned # Null /\ Val(returned).fn = fn THEN {Val(returned)} ELSE {}

C22_MakerRebateLowersCost ==
    \A c \in LastCall("calculateTradingCosts") :
        (c.args[5] = "maker" /\ c.value.feeRate < 0) =>
            /\ c.args[4] = "buy" => c.value.netValue <= c.value.tradeValue
            /\ c.args[4] = "sell" => c.value.netValue >= c.value.tradeValue

\* Position of the quote of exchange e in the input list.
QuoteIndex(e) == CHOOSE k \in 1..Len(prices) : prices[k].exchange = e

\* The loop reaches the direction of opportunity a before that of b: the
\* pair (i, j), i < j, of a comes first, or it is the same pair and a is the
\* direction in which quote i buys.
DetectedBefore(a, b) ==
    LET fa == QuoteIndex(a.exchangeFrom)
        ta == QuoteIndex(a.exchangeTo)
        fb == QuoteIndex(b.exchangeFrom)
        tb == QuoteIndex(b.exchangeTo)
        ia == IF fa < ta THEN fa ELSE ta
        ja == IF fa < ta THEN ta ELSE fa
        ib == IF fb < tb THEN fb ELSE tb
        jb == IF fb < tb THEN tb ELSE fb
    IN  \/ ia < ib
        \/ ia = ib /\ ja < jb
        \/ ia = ib /\ ja = jb /\ fa < ta /\ tb < fb

Tied(a, b) ==
    a.isProfitableAfterFees = b.isProfitableAfterFees /\ a.netProfit = b.netProfit

\* C23: opportunities that tie on both ranking keys (same
\* isProfitableAfterFees, equal netProfit) appear in the returned list in
\* detection order: pairs in increasing (i, j) order, within a pair the
\* direction in which i buys before the one in which j buys.
C23_TiesKeepDetectionOrder ==
    \A m \in 1..Len(result) : \A n \in 1..Len(result) :
        (m < n /\ Tied(result[m], result[n])) => DetectedBefore(result[m], result[n])

\* A returned list with ties across pairs and inside a pair.
C23_Witness ==
    /\ Len(result) = 6
    /\ \A m \in 1..6 : \A n \in 1..6 : Tied(result[m], result[n])
    /\ result[1].exchangeFrom = result[2].exchangeTo
    /\ result[1].exchangeTo = result[2].exchangeFrom
    /\ result[3].exchangeTo # result[1].exchangeTo

C25_FeesNonNegativeTotalPositive ==
    \A n \in 1..Len(result) :
        LET o == result[n]
            b == o.feeBreakdown
        IN  /\ b.buyExchange.tradingFee >= 0
            /\ b.sellExchange.tradingFee >= 0
            /\ b.sellExchange.jpyWithdrawalFee >= 0
            /\ b.buyExchange.btcWithdrawalFee >= 0
            /\ b.networkFee > 0
            /\ o.totalFees > 0
            /\ o.netProfit < o.priceDifference * Scale

\* Two returned opportunities between the exchange without fees and one
\* whose BTC withdrawal is free: in one direction only the network fee and
\* one trading fee are charged.
C25_Witness ==
    /\ Len(result) = 2
    /\ {result[1].exchangeFrom, result[1].exchangeTo} = {"BITPoint", "GMOコイン"}
    /\ \E n \in 1..2 :
          /\ result[n].feeBreakdown.buyExchange.tradingFee = 0
          /\ result[n].feeBreakdown.buyExchange.btcWithdrawalFee = 0
          /\ result[n].feeBreakdown.sellExchange.jpyWithdrawalFee = 0

\* C26 (as stated): at every moment at which a client can read the snapshot
\* (GET /api/prices, initial_data on connecting) currentOpportunities is the
\* detector's result for currentPrices: no reader gets the prices of one
\* cycle together with the opportunities of another, also while a cycle
\* awaits savePrices and after savePrices has rejected.
C26_SnapshotIsOneCycle ==
    /\ getPrices.opportunities = detectArbitrageOpportunities(getPrices.prices)
    /\ \A k \in Clients : \A n \in 1..Len(received[k]) :
          received[k][n].type = "initial_data" =>
              received[k][n].opportunities =
                  detectArbitrageOpportunities(received[k][n].prices)

\* The invocations that have published: their list was assigned to
\* currentPrices, detected on and broadcast.
Published == { d \in 1..MaxCycles : cycles[d].pc = "returned" /\ cycles[d].prices # <<>> }

\* C27 (as stated): when invocations overlap, the snapshot and the
\* broadcasts never go back in time: once an invocation started later has
\* published, no step of an invocation started earlier assigns
\* currentPrices or currentOpportunities or broadcasts.
C27_NoOlderCycleOverwrites ==
    [][\A c \in 1..MaxCycles :
          (cycles'[c] # cycles[c] /\ \E d \in Published : c < d) =>
              /\ currentPrices' = currentPrices
              /\ currentOpportunities' = currentOpportunities
              /\ broadcasts' = broadcasts
              /\ received' = received]_vars

\* C28: an invocation whose fetch returns no quote changes nothing:
\* currentPrices and currentOpportunities keep their values, nothing is
\* stored, the detector is not called and nothing is broadcast.
C28_EmptyFetchChangesNothing ==
    [][\A c \in 1..MaxCycles :
          (cycles[c].pc = "fetching" /\ cycles'[c].pc = "returned") =>
              /\ cycles'[c].prices = <<>>
              /\ currentPrices' = currentPrices
              /\ currentOpportunities' = currentOpportunities
              /\ storedBatches' = storedBatches
              /\ runs' = runs /\ result' = result /\ totalSaveCalls' = totalSaveCalls
              /\ broadcasts' = broadcasts
              /\ received' = received]_vars

\* The second invocation got no quote after the first one had published a
\* list with an opportunity, which is still the snapshot.
C28_Witness ==
    /\ cycles[1].pc = "returned" /\ cycles[1].prices # <<>>
    /\ cycles[2] = [pc |-> "returned", prices |-> <<>>]
    /\ currentPrices = cycles[1].prices
    /\ currentOpportunities # <<>>
    /\ Len(storedBatches) = 1
    /\ Len(broadcasts) = 1
    /\ runs = 1

\* C29 (as stated): a failure inside one invocation is caught inside it and
\* does not stop the scheduler: while invocations remain the timer can start
\* the next one whatever became of the earlier ones, and an invocation
\* started later than a failed one whose savePrices resolves publishes normally:
\* its list is stored and is currentPrices, currentOpportunities is what was
\* detected from it, and the price_update it broadcasts carries both.
C29_FailureStaysInsideItsCycle ==
    /\ []((\E c \in 1..MaxCycles : cycles[c].pc = "idle") => ENABLED TimerFires)
    /\ [][\A d \in 1..MaxCycles :
            ( /\ cycles[d].pc = "saving" /\ cycles'[d].pc = "returned"
              /\ \E c \in 1..(d - 1) : cycles[c].pc = "caught" ) =>
                LET ps == cycles[d].prices
                    update == [type |-> "price_update",
                               prices |-> ps,
                               opportunities |-> detectArbitrageOpportunities(ps),
                               timestamp |-> getJapanTime]
                IN  /\ storedBatches' = Append(storedBatches, ps)
                    /\ currentPrices' = ps
                    /\ currentOpportunities' = detectArbitrageOpportunities(ps)
                    /\ broadcasts' = Append(broadcasts, [cycle |-> d, data |-> update])]_vars

\* C30 (as stated): whenever ErrorBoundary renders its fallback
\* (state.hasError true) state.errorInfo is non-null, so render never reads
\* componentStack of null; in every state reached by getDerivedStateFromError,
\* componentDidCatch and the retry button, the render between
\* getDerivedStateFromError and componentDidCatch included.
C30_FallbackHasErrorInfo ==
    /\ (lifecycle \in {"derived", "updated"} /\ state.hasError) => state.errorInfo # Null
    /\ \A n \in 1..Len(rendered) : rendered[n] # "TypeError"

====
